---- MODULE Spec2Model ----
(***************************************************************************)
(* IRIS registry: the unit ledger (Artwork, Reservation, Event,            *)
(* WebhookReceipt tables) and the handlers of src/src/server.ts that       *)
(* change it.  Every handler is cut at its awaits: a step is one database  *)
(* statement or one transaction as the other connections can observe it    *)
(* under PostgreSQL's READ COMMITTED isolation (a transaction's writes      *)
(* become visible at its commit; a row it has written or locked is         *)
(* blocked for other writers until then).                                  *)
(***************************************************************************)
EXTENDS Integers, Sequences, FiniteSets, TLC

VARIABLES now, art, res, ev, receipts, alloc, hook, ver, act, sweep, rar, got

vars == <<now, art, res, ev, receipts, alloc, hook, ver, act, sweep, rar, got>>

\* ------------------------------------------------------------- bounds
\* Units seeded; concurrent requests of each kind and sweeps; clock ticks;
\* tokens per order; requests started in the specification of all handlers.
NumUnits == 2
NumCallers == 3
NumHooks == 1
NumVerifiers == 1
NumActivators == 1
NumSweeps == 2
MaxTicks == 2
MaxTokens == 1
MaxOps == 4
\* Deliveries and delivery ids of the webhook scenario; verify calls and
\* clock ticks of the lockout scenario.
NumDeliveries == 2
NumDeliveryIds == 2
MaxCalls == 7
GateTicks == 4
\* Units of the rarity commitment; leaves of a tree built from a free list.
MaxLeaves == 10
MaxFreeLeaves == 3
\* Reservation tokens of one order in the line-item scenario.
MaxLineItems == 2

\* --------------------------------------------------- program constants
reservationTtlMinutes == 20
MAX_ATTEMPTS == 5
LOCK_MINUTES == 60
SweepBatch == 200

\* SQL NULL of a nullable integer/timestamp column, and of a text column.
NULL == -1
NoText == "null"

Units == 1..NumUnits
Callers == 1..NumCallers
Hooks == 1..NumHooks
Deliveries == 1..NumDeliveries
Verifiers == 1..NumVerifiers
Calls == 1..MaxCalls
Activators == 1..NumActivators
Sweeps == 1..NumSweeps

\* The values generatePin can return and a client can type (6-digit codes).
Pins == {4271, 120034}
Emails == {"a@iris.test", "b@iris.test"}

Min(a, b) == IF a < b THEN a ELSE b

\* ------------------------------------------------------------ the rows
\* An Artwork row as prisma/seed.ts creates it.
SeedArtwork ==
  [status |-> "available", assigned_order_id |-> NoText,
   assigned_customer_email |-> NoText, owner_email |-> NoText,
   pin_code |-> NULL, pin_last4 |-> NULL, pin_attempts |-> 0,
   pin_locked_until |-> NULL, activated_at |-> NULL, proof_token |-> NULL]

\* pinCode.slice(-4) of the zero-padded 6-digit string.
Last4(pin) == pin % 10000

\* Reservation tokens are the indices of res (a fresh UUID per row).
Tokens == 1..Len(res)

\* tx.event.create: the event is appended to its unit's trail.
Append1(trail, u, e) == [trail EXCEPT ![u] = Append(@, e)]

\* ------------------------------------------------------------ row locks
\* The Artwork row u is locked by an open reserve-random transaction
\* (SELECT ... FOR UPDATE) from its select to its commit.
ArtLocked(u) == \E c \in DOMAIN alloc : alloc[c].pc = "locked" /\ alloc[c].iris = u

\* The Reservation row t is write-locked by an open confirmReservation
\* transaction from its first update to its commit.
ResLocked(t) == \E w \in DOMAIN hook : hook[w].pc = "tx_write" /\ hook[w].token = t

\* ---------------------------------------------------------------- clock
\* The clock advances by one reservation TTL, at most maxTicks times.
Tick(maxTicks) ==
  /\ now < maxTicks * reservationTtlMinutes
  /\ now' = now + reservationTtlMinutes
  /\ UNCHANGED <<art, res, ev, receipts, alloc, hook, ver, act, sweep, rar, got>>

\* ------------------------------------------ POST /apps/iris/reserve-random
IdleCaller == [pc |-> "idle", iris |-> NULL, expires |-> NULL, token |-> NULL, code |-> 0]

\* A slot is taken in index order (the slots are interchangeable).
MayStart(procs, i) == procs[i].pc = "idle" /\ (i > 1 => procs[i - 1].pc # "idle")

\* WHERE "status" = 'available' ... FOR UPDATE SKIP LOCKED: an available
\* row that no other open transaction has locked.
LockableNoSkip(u) == art[u].status = "available"
Lockable(u) == art[u].status = "available" /\ ~ArtLocked(u)

\* The select found a row: the row is locked and expiresAt is computed.
ReserveSelect(c) ==
  /\ MayStart(alloc, c)
  /\ \E u \in Units :
       /\ Lockable(u)
       /\ alloc' = [alloc EXCEPT ![c] = [@ EXCEPT !.pc = "locked", !.iris = u,
                                                  !.expires = now + reservationTtlMinutes]]
  /\ UNCHANGED <<now, art, res, ev, receipts, hook, ver, act, sweep, rar, got>>

\* rows.length === 0: the transaction returns null, the reply is 409.
ReserveNone(c) ==
  /\ MayStart(alloc, c)
  /\ ~ \E u \in Units : Lockable(u)
  /\ alloc' = [alloc EXCEPT ![c] = [@ EXCEPT !.pc = "done", !.code = 409]]
  /\ UNCHANGED <<now, art, res, ev, receipts, hook, ver, act, sweep, rar, got>>

\* update Artwork, create Reservation, create Event, commit, reply 200.
ReserveCommit(c) ==
  /\ alloc[c].pc = "locked"
  /\ LET u == alloc[c].iris
         t == Len(res) + 1
     IN /\ art' = [art EXCEPT ![u].status = "reserved"]
        /\ res' = Append(res, [iris_id |-> u, status |-> "active",
                               expires_at |-> alloc[c].expires])
        /\ ev' = Append1(ev, u, [type |-> "reserved", actor |-> "system",
                                 reservation_token |-> t,
                                 expires_at |-> alloc[c].expires])
        /\ alloc' = [alloc EXCEPT ![c] = [@ EXCEPT !.pc = "done", !.expires = NULL,
                                                  !.token = t, !.code = 200]]
  /\ UNCHANGED <<now, receipts, hook, ver, act, sweep, rar, got>>

\* --------------------------------------- POST /webhooks/shopify/orders-paid
\* The x-shopify-webhook-id values in use: a delivery carries an id already
\* seen or the next unused one (the ids are interchangeable).
DeliveryIds ==
  { i \in 1..NumDeliveryIds : i = 1 \/ \E w \in DOMAIN hook : hook[w].id = i - 1 }
Secret == "shpss"

\* The parsed order: order.name, the customer email extractCustomerEmail
\* finds (or null), and the reservation tokens of its line items.
Orders == { [name |-> "#1001", email |-> "a@iris.test"],
            [name |-> "#1002", email |-> NoText] }

\* Token lists of at most MaxTokens tokens; a token may name no reservation.
TokenLists(toks) == UNION { [1..n -> toks] : n \in 0..MaxTokens }

Bodies(toks) == { [order |-> o, tokens |-> ts] : o \in Orders, ts \in TokenLists(toks) }

NoBody == [order |-> [name |-> NoText, email |-> NoText], tokens |-> <<>>]

\* crypto.createHmac("sha256", secret).update(rawBody).digest("base64"):
\* a string of fixed length that names the key and the bytes it was made of.
HmacDigest(rawBody, secret) == <<"sha256", secret, rawBody>>

\* The x-shopify-hmac-sha256 headers a sender can put on rawBody: the MAC
\* under the shop's secret, a MAC under another key, the MAC of other
\* bytes, a string of another length, and no header ("").
HmacHeaders(rawBody) ==
  { HmacDigest(rawBody, Secret), HmacDigest(rawBody, "guess"),
    HmacDigest(NoBody, Secret), <<"nope">>, <<>> }

\* The header is the MAC of the raw body under the shop's secret (what the
\* sender did, whatever the handler makes of it).
Signed(rawBody, hmac) == hmac = HmacDigest(rawBody, Secret)

\* utils.verifyShopifyHmac: unequal lengths are rejected before
\* crypto.timingSafeEqual compares the bytes.
verifyShopifyHmacLengthOnly(rawBody, secret, receivedHmac) ==
  Len(receivedHmac) = Len(HmacDigest(rawBody, secret))
verifyShopifyHmacAnyKey(rawBody, secret, receivedHmac) ==
  Len(receivedHmac) = 3 /\ receivedHmac[3] = rawBody
\* crypto.timingSafeEqual(a, b) compares position by position and is not
\* defined (it throws) for buffers of unequal length.
timingSafeEqual(a, b) == \A i \in DOMAIN a \cup DOMAIN b : a[i] = b[i]
verifyShopifyHmac(rawBody, secret, receivedHmac) ==
  LET digest == HmacDigest(rawBody, secret)
  IN IF Len(receivedHmac) # Len(digest) THEN FALSE
     ELSE timingSafeEqual(receivedHmac, digest)

\* const reservationTokens = parseReservationTokens(order): the list the
\* handler goes on with, whatever the parse made of the payload.
reservationTokens(body) == body.tokens

extractCustomerEmail(body) == body.order.email

IdleHook ==
  [pc |-> "idle", id |-> NULL, signed |-> FALSE, body |-> NoBody, k |-> 0, failed |-> <<>>,
   token |-> NULL, iris |-> NULL, checkedAt |-> NULL, pin |-> NULL,
   generated |-> FALSE, code |-> 0, reply |-> NoText]

\* The reply is sent; the request's locals are gone.
Finish(h, code, reply) ==
  [h EXCEPT !.pc = "done", !.code = code, !.reply = reply, !.body = NoBody,
            !.k = 0, !.token = NULL,
            !.iris = NULL, !.checkedAt = NULL, !.pin = NULL, !.generated = FALSE]

\* The request is answered before the receipt is written: missing HMAC
\* header (401), missing webhook id (400), HMAC mismatch (401).
HookReject(w, id, body, hmac) ==
  /\ MayStart(hook, w)
  /\ hmac = <<>> \/ id = NULL \/ ~verifyShopifyHmac(body, Secret, hmac)
  /\ hook' = [hook EXCEPT ![w] =
       Finish([@ EXCEPT !.id = id, !.signed = Signed(body, hmac)],
              IF hmac # <<>> /\ id = NULL THEN 400 ELSE 401,
              IF hmac = <<>> THEN "missing_hmac"
              ELSE IF id = NULL THEN "missing_webhook_id" ELSE "invalid_hmac")]
  /\ UNCHANGED <<now, art, res, ev, receipts, alloc, ver, act, sweep, rar, got>>

Authentic(id, body, hmac) ==
  hmac # <<>> /\ id # NULL /\ verifyShopifyHmac(body, Secret, hmac)

\* webhookReceipt.create against the unique index on shopify_webhook_id:
\* P2002 when a receipt with this id exists.
ReceiptExistsNever(id) == FALSE
ReceiptExists(id) == id \in receipts

\* P2002: reply { status: "duplicate" } with code 200.
HookDuplicate(w, id, body, hmac) ==
  /\ MayStart(hook, w)
  /\ Authentic(id, body, hmac)
  /\ ReceiptExists(id)
  /\ hook' = [hook EXCEPT ![w] = Finish([@ EXCEPT !.id = id, !.signed = Signed(body, hmac), !.body = body],
                                         200, "duplicate")]
  /\ UNCHANGED <<now, art, res, ev, receipts, alloc, ver, act, sweep, rar, got>>

\* The receipt is inserted; an order without tokens is answered 400,
\* otherwise the token loop starts.
HookReceipt(w, id, body, hmac) ==
  /\ MayStart(hook, w)
  /\ Authentic(id, body, hmac)
  /\ ~ReceiptExists(id)
  /\ receipts' = receipts \cup {id}
  /\ hook' = [hook EXCEPT ![w] =
       IF Len(reservationTokens(body)) = 0
       THEN Finish([@ EXCEPT !.id = id, !.signed = Signed(body, hmac), !.body = body],
                   400, "missing_reservation_token")
       ELSE [@ EXCEPT !.pc = "loop", !.id = id, !.signed = Signed(body, hmac),
                      !.body = body, !.k = 1]]
  /\ UNCHANGED <<now, art, res, ev, alloc, ver, act, sweep, rar, got>>

\* The loop moves to the next token, or the reply is sent after the last:
\* status "partial" when a token failed, "ok" otherwise.
NextTokenStopOnFailure(h, failed) ==
  Finish([h EXCEPT !.failed = failed], 200, IF Len(failed) > 0 THEN "partial" ELSE "ok")
NextToken(h, failed) ==
  IF h.k < Len(reservationTokens(h.body))
  THEN [h EXCEPT !.pc = "loop", !.k = h.k + 1, !.failed = failed, !.token = NULL,
                 !.iris = NULL, !.checkedAt = NULL, !.pin = NULL, !.generated = FALSE]
  ELSE Finish([h EXCEPT !.failed = failed], 200,
              IF Len(failed) > 0 THEN "partial" ELSE "ok")

\* reservation.expires_at < new Date()
IsExpiredNever(r, t) == FALSE
IsExpired(r, t) == r.expires_at < t

\* confirmReservation, up to its first write: findUnique of the
\* reservation.  A missing or non-active reservation throws
\* reservation_not_active.  An expired one is updated to "expired" and then
\* reservation_expired is thrown inside the transaction callback, so the
\* transaction, with that update, is rolled back.
ConfirmRead(w) ==
  /\ hook[w].pc = "loop"
  /\ LET h == hook[w]
         t == reservationTokens(h.body)[h.k]
     IN IF t \notin Tokens \/ res[t].status # "active"
        THEN hook' = [hook EXCEPT ![w] =
               NextToken(h, Append(h.failed, [token |-> t, error |-> "reservation_not_active"]))]
        ELSE IF IsExpired(res[t], now)
        THEN /\ ~ResLocked(t)
             /\ hook' = [hook EXCEPT ![w] =
                  NextToken(h, Append(h.failed, [token |-> t, error |-> "reservation_expired"]))]
        ELSE hook' = [hook EXCEPT ![w] = [@ EXCEPT !.pc = "tx_read", !.token = t,
                                                    !.iris = res[t].iris_id, !.checkedAt = now]]
  /\ UNCHANGED <<now, art, res, ev, receipts, alloc, ver, act, sweep, rar, got>>

\* generatePin is called only when the artwork read has no pin_code.
PinChoices(a) == IF a.pin_code # NULL THEN {a.pin_code} ELSE Pins

\* The reservation row is write-locked by the update to "confirmed", then
\* the artwork is read and the PIN chosen.
ConfirmLock(w) ==
  /\ hook[w].pc = "tx_read"
  /\ ~ResLocked(hook[w].token)
  /\ \E p \in PinChoices(art[hook[w].iris]) :
       hook' = [hook EXCEPT ![w] = [@ EXCEPT !.pc = "tx_write", !.pin = p,
                  !.generated = (art[hook[w].iris].pin_code = NULL)]]
  /\ UNCHANGED <<now, art, res, ev, receipts, alloc, ver, act, sweep, rar, got>>

\* The artwork update (waits for the row), the events, and the commit.
ConfirmCommit(w) ==
  /\ hook[w].pc = "tx_write"
  /\ ~ArtLocked(hook[w].iris)
  /\ LET h == hook[w]
         u == h.iris
         assigned == [type |-> "assigned", actor |-> "shopify",
                      reservation_token |-> h.token,
                      order_number |-> h.body.order.name,
                      customer_email |-> extractCustomerEmail(h.body)]
         pinEv == [type |-> "pin_generated", actor |-> "system", pin_last4 |-> Last4(h.pin)]
     IN /\ res' = [res EXCEPT ![h.token].status = "confirmed"]
        /\ art' = [art EXCEPT ![u] = [@ EXCEPT
                     !.status = "assigned",
                     !.assigned_order_id = h.body.order.name,
                     !.assigned_customer_email = extractCustomerEmail(h.body),
                     !.pin_code = h.pin,
                     !.pin_last4 = Last4(h.pin),
                     !.pin_attempts = 0,
                     !.pin_locked_until = NULL]]
        /\ ev' = [ev EXCEPT ![u] = IF h.generated THEN @ \o <<assigned, pinEv>>
                                                  ELSE Append(@, assigned)]
        /\ hook' = [hook EXCEPT ![w] = [@ EXCEPT !.pc = "notify"]]
  /\ UNCHANGED <<now, receipts, alloc, ver, act, sweep, rar, got>>

\* recordShopifyOwnership returned.
OwnershipRecorded(w) ==
  /\ hook[w].pc = "notify"
  /\ hook' = [hook EXCEPT ![w] = NextToken(@, @.failed)]
  /\ UNCHANGED <<now, art, res, ev, receipts, alloc, ver, act, sweep, rar, got>>

\* data: { status: "shopify_failed" }: the other columns of the row stay.
MarkFailedReset(a) == [SeedArtwork EXCEPT !.status = "shopify_failed"]
MarkFailed(a) == [a EXCEPT !.status = "shopify_failed"]

\* recordShopifyOwnership threw: a second transaction marks the unit
\* shopify_failed and appends SHOPIFY_ERROR.
OwnershipFailed(w) ==
  /\ hook[w].pc = "notify"
  /\ ~ArtLocked(hook[w].iris)
  /\ LET u == hook[w].iris
     IN /\ art' = [art EXCEPT ![u] = MarkFailed(@)]
        /\ ev' = Append1(ev, u, [type |-> "SHOPIFY_ERROR", actor |-> "shopify",
                                 reservation_token |-> hook[w].token])
  /\ hook' = [hook EXCEPT ![w] = NextToken(@, @.failed)]
  /\ UNCHANGED <<now, res, receipts, alloc, ver, act, sweep, rar, got>>

\* ------------------------------------------------ releaseExpiredReservations
IdleSweep == [pc |-> "idle", expired |-> <<>>, i |-> 0, failed |-> {}]

RECURSIVE ExpiredFrom(_, _)
\* The active reservations with expires_at < t among tokens k..Len(res).
ExpiredFrom(k, t) ==
  IF k > Len(res) THEN <<>>
  ELSE IF res[k].status = "active" /\ res[k].expires_at < t
       THEN <<k>> \o ExpiredFrom(k + 1, t)
       ELSE ExpiredFrom(k + 1, t)

\* findMany({ status: "active", expires_at: { lt: now }, take: 200 })
FindExpiredNone(t) == <<>>
FindExpiredOf(t, take) ==
  LET all == ExpiredFrom(1, t) IN SubSeq(all, 1, Min(Len(all), take))
FindExpired(t) == FindExpiredOf(t, SweepBatch)

\* The sweep reads its batch; an empty batch ends it.
SweepFind(s) ==
  /\ MayStart(sweep, s)
  /\ LET batch == FindExpired(now)
     IN sweep' = [sweep EXCEPT ![s] =
          IF Len(batch) = 0 THEN [@ EXCEPT !.pc = "done"]
          ELSE [@ EXCEPT !.pc = "run", !.expired = batch, !.i = 1]]
  /\ UNCHANGED <<now, art, res, ev, receipts, alloc, hook, ver, act, rar, got>>

\* updateMany({ where: { iris_id, status: "reserved" } }) matches the row.
StillReservedAlways(u) == TRUE
StillReserved(u) == art[u].status = "reserved"

\* One transaction of the loop: the reservation of the batch is set to
\* "expired", its unit is set to "available" if it is "reserved", and the
\* reservation_expired event records whether a row was released.
SweepRelease(s) ==
  /\ sweep[s].pc = "run"
  /\ LET t == sweep[s].expired[sweep[s].i]
         u == res[t].iris_id
         released == StillReserved(u)
     IN /\ ~ResLocked(t)
        /\ released => ~ArtLocked(u)
        /\ res' = [res EXCEPT ![t].status = "expired"]
        /\ art' = IF released THEN [art EXCEPT ![u].status = "available"] ELSE art
        /\ ev' = Append1(ev, u, [type |-> "reservation_expired", actor |-> "system",
                                 reservation_token |-> t, artwork_released |-> released])
  /\ sweep' = [sweep EXCEPT ![s] =
       [@ EXCEPT !.pc = IF sweep[s].i < Len(sweep[s].expired) THEN "run" ELSE "done",
                 !.i = sweep[s].i + 1]]
  /\ UNCHANGED <<now, receipts, alloc, hook, ver, act, rar, got>>

\* ------------------------------------------------------------ POST /activate
IdleActivator == [pc |-> "idle", iris |-> NULL, email |-> NoText, code |-> 0]

\* The ids a client can send: the seeded units and one that does not exist.
IrisIds == Units \cup {0}

\* !body?.iris_id || !body?.pin: reply 400 before any statement.
ActivateBadRequest(a) ==
  /\ MayStart(act, a)
  /\ act' = [act EXCEPT ![a] = [@ EXCEPT !.pc = "done", !.code = 400]]
  /\ UNCHANGED <<now, art, res, ev, receipts, alloc, hook, ver, sweep, rar, got>>

\* artwork.update of an unknown iris_id raises P2025: reply 404.
ActivateNotFound(a, u, email) ==
  /\ MayStart(act, a)
  /\ u \notin Units
  /\ act' = [act EXCEPT ![a] = [@ EXCEPT !.pc = "done", !.code = 404]]
  /\ UNCHANGED <<now, art, res, ev, receipts, alloc, hook, ver, sweep, rar, got>>

\* artwork.update({ status: "activated", activated_at, assigned_customer_email })
\* as a statement of its own; the body's pin is not read.
ActivateUpdate(a, u, email) ==
  /\ MayStart(act, a)
  /\ u \in Units
  /\ ~ArtLocked(u)
  /\ art' = [art EXCEPT ![u] = [@ EXCEPT
               !.status = "activated",
               !.activated_at = now,
               !.assigned_customer_email = IF email # NoText THEN email ELSE @]]
  /\ act' = [act EXCEPT ![a] = [@ EXCEPT !.pc = "event", !.iris = u, !.email = email]]
  /\ UNCHANGED <<now, res, ev, receipts, alloc, hook, ver, sweep, rar, got>>

\* event.create of "activated" as a second statement, then reply ok.
ActivateEvent(a) ==
  /\ act[a].pc = "event"
  /\ ev' = Append1(ev, act[a].iris,
                   [type |-> "activated",
                    actor |-> IF act[a].email # NoText THEN act[a].email ELSE "system",
                    actor_email |-> act[a].email])
  /\ act' = [act EXCEPT ![a] = [@ EXCEPT !.pc = "done", !.email = NoText, !.code = 200]]
  /\ UNCHANGED <<now, art, res, receipts, alloc, hook, ver, sweep, rar, got>>

\* ------------------------------------------------------ handleActivateVerify
IdleVerifier ==
  [pc |-> "idle", iris |-> NULL, pin |-> NULL, email |-> NoText, attempts |-> 0,
   lockUntil |-> NULL, proofToken |-> NULL,
   code |-> 0, reply |-> NoText, retry_at |-> NULL, invited |-> FALSE]

\* The reply is sent; the request's locals are gone.
Replied(r, code, reply) ==
  [r EXCEPT !.pc = "done", !.code = code, !.reply = reply, !.pin = NULL, !.email = NoText,
            !.attempts = 0, !.lockUntil = NULL, !.proofToken = NULL]

\* artwork.pin_locked_until && artwork.pin_locked_until > new Date()
LockedOutNever(a, t) == FALSE
LockedOut(a, t) == a.pin_locked_until # NULL /\ a.pin_locked_until > t

\* nextAttempts >= MAX_ATTEMPTS ? now + LOCK_MINUTES : null
LockUntil(nextAttempts, t) ==
  IF nextAttempts >= MAX_ATTEMPTS THEN t + LOCK_MINUTES ELSE NULL

\* The rejections that precede the PIN comparison, in the code's order.
PrecheckLockFirst(u, t) ==
  IF u \notin Units THEN [code |-> 404, reply |-> "iris_not_found", retry_at |-> NULL]
  ELSE IF art[u].pin_locked_until # NULL /\ art[u].pin_locked_until > t
       THEN [code |-> 429, reply |-> "too_many_attempts", retry_at |-> art[u].pin_locked_until]
  ELSE IF art[u].status = "activated"
       THEN [code |-> 409, reply |-> "already_activated", retry_at |-> NULL]
  ELSE IF art[u].status # "assigned"
       THEN [code |-> 409, reply |-> "not_assigned", retry_at |-> NULL]
  ELSE IF art[u].pin_code = NULL
       THEN [code |-> 409, reply |-> "pin_not_set", retry_at |-> NULL]
  ELSE [code |-> 0, reply |-> NoText, retry_at |-> NULL]
Precheck(u, t) ==
  IF u \notin Units THEN [code |-> 404, reply |-> "iris_not_found", retry_at |-> NULL]
  ELSE IF art[u].status = "activated"
       THEN [code |-> 409, reply |-> "already_activated", retry_at |-> NULL]
  ELSE IF art[u].status # "assigned"
       THEN [code |-> 409, reply |-> "not_assigned", retry_at |-> NULL]
  ELSE IF art[u].pin_code = NULL
       THEN [code |-> 409, reply |-> "pin_not_set", retry_at |-> NULL]
  ELSE IF LockedOut(art[u], t)
       THEN [code |-> 429, reply |-> "too_many_attempts", retry_at |-> art[u].pin_locked_until]
  ELSE [code |-> 0, reply |-> NoText, retry_at |-> NULL]

\* crypto.randomUUID(): a value no other call draws.
FreshUuid(v) == v

\* !irisId || !pin || !email: reply 400 before any statement.
VerifyBadRequest(v) ==
  /\ MayStart(ver, v)
  /\ ver' = [ver EXCEPT ![v] = Replied(@, 400, "missing_required_fields")]
  /\ UNCHANGED <<now, art, res, ev, receipts, alloc, hook, act, sweep, rar, got>>

\* findUnique of the artwork, outside any transaction, and every decision
\* taken on that copy: a rejection, or the values the write will store.
VerifyRead(v, u, pin, email) ==
  /\ MayStart(ver, v)
  /\ LET pre == Precheck(u, now)
         req == [ver[v] EXCEPT !.iris = u, !.pin = pin, !.email = email]
     IN ver' = [ver EXCEPT ![v] =
          IF pre.code # 0
          THEN Replied([req EXCEPT !.retry_at = pre.retry_at], pre.code, pre.reply)
          ELSE IF art[u].pin_code # pin
          THEN [req EXCEPT !.pc = "mismatch",
                           !.attempts = art[u].pin_attempts + 1,
                           !.lockUntil = LockUntil(art[u].pin_attempts + 1, now)]
          ELSE [req EXCEPT !.pc = "match",
                           !.proofToken = IF art[u].proof_token # NULL
                                          THEN art[u].proof_token ELSE FreshUuid(v)]]
  /\ UNCHANGED <<now, art, res, ev, receipts, alloc, hook, act, sweep, rar, got>>

\* The mismatch transaction stores the values computed from the copy,
\* appends activation_failed, and the reply is 401 invalid_pin.
VerifyMismatch(v) ==
  /\ ver[v].pc = "mismatch"
  /\ ~ArtLocked(ver[v].iris)
  /\ LET u == ver[v].iris
     IN /\ art' = [art EXCEPT ![u] = [@ EXCEPT !.pin_attempts = ver[v].attempts,
                                                !.pin_locked_until = ver[v].lockUntil]]
        /\ ev' = Append1(ev, u, [type |-> "activation_failed", actor |-> ver[v].email,
                                 attempts |-> ver[v].attempts,
                                 locked_until |-> ver[v].lockUntil])
  /\ ver' = [ver EXCEPT ![v] = Replied(@, 401, "invalid_pin")]
  /\ UNCHANGED <<now, res, receipts, alloc, hook, act, sweep, rar, got>>

\* The match transaction activates the unit and appends "activated"; then
\* ensureShopifyCustomerInvite runs (its failure is logged) and the reply
\* is 200 ok.
VerifyMatch(v, inviteOk) ==
  /\ ver[v].pc = "match"
  /\ ~ArtLocked(ver[v].iris)
  /\ LET u == ver[v].iris
     IN /\ art' = [art EXCEPT ![u] = [@ EXCEPT
                     !.status = "activated",
                     !.activated_at = now,
                     !.owner_email = ver[v].email,
                     !.proof_token = ver[v].proofToken,
                     !.pin_attempts = 0,
                     !.pin_locked_until = NULL]]
        /\ ev' = Append1(ev, u, [type |-> "activated", actor |-> ver[v].email,
                                 actor_email |-> ver[v].email])
  /\ ver' = [ver EXCEPT ![v] = Replied([@ EXCEPT !.invited = inviteOk], 200, "ok")]
  /\ UNCHANGED <<now, res, receipts, alloc, hook, act, sweep, rar, got>>

\* ------------------------------------------------- rarity commitment
\* sha256 of a string, as the value that names what was hashed (the hash
\* is treated as collision-free); v is the set of pieces the bytes are made
\* of.
sha256(v) == <<"sha256", v>>

\* "": the root of a tree without nodes.
NoHash == <<>>

\* sha256(`${irisId}|${rarity}|${nonce}`)
computeLeaf(irisId, rarity, nonce) == sha256({<<irisId, rarity, nonce>>})

\* sha256(left + right) with [left, right] the two hashes in string order:
\* the same bytes for (a, b) and (b, a).
hashPairFirst(a, b) == sha256({a})
hashPair(a, b) == sha256({a, b})

\* One pass of the while loop: the nodes are paired two by two; a last node
\* without a right neighbour is paired with itself.
NextLevel(current) ==
  [k \in 1..((Len(current) + 1) \div 2) |->
     hashPair(current[2 * k - 1],
              IF 2 * k <= Len(current) THEN current[2 * k] ELSE current[2 * k - 1])]

RECURSIVE LevelsFrom(_)
LevelsFrom(current) ==
  IF Len(current) > 1 THEN <<current>> \o LevelsFrom(NextLevel(current))
  ELSE <<current>>

buildMerkleTree(leaves) == IF Len(leaves) = 0 THEN <<<<>>>> ELSE LevelsFrom(leaves)

getMerkleRoot(levels) ==
  IF Len(levels) = 0 THEN NoHash
  ELSE LET top == levels[Len(levels)]
       IN IF Len(top) > 0 THEN top[1] ELSE NoHash

\* idx ^ 1 (indices count from 0).
XorOneNever(idx) == idx
XorOne(idx) == IF idx % 2 = 0 THEN idx + 1 ELSE idx - 1

\* The levels the proof loop visits: level < levels.length - 1.
ProofLevelsAll(levels) == Len(levels)
ProofLevels(levels) == Len(levels) - 1

\* The loop of getMerkleProof from level (counted from 1) on, at idx.
RECURSIVE ProofFrom(_, _, _)
ProofFrom(levels, level, idx) ==
  IF level > ProofLevels(levels) THEN <<>>
  ELSE LET nodes == levels[level]
           pairIndex == XorOne(idx)
           sibling == IF pairIndex < Len(nodes) THEN nodes[pairIndex + 1]
                      ELSE nodes[idx + 1]
       IN <<sibling>> \o ProofFrom(levels, level + 1, idx \div 2)

getMerkleProof(levels, index) == ProofFrom(levels, 1, index)

RECURSIVE FoldProof(_, _, _)
FoldProof(hash, proof, k) ==
  IF k > Len(proof) THEN hash ELSE FoldProof(hashPair(hash, proof[k]), proof, k + 1)

verifyMerkleProof(leaf, proof, root) == FoldProof(leaf, proof, 1) = root

\* The tier table (RARITY_COUNTS) scaled to n units: two tiers in table
\* order with counts that add up to n.
RarityTables(n) ==
  { <<[code |-> "Common", count |-> a], [code |-> "Rare", count |-> n - a]>> : a \in 0..n }

\* rarityList: each tier of the table count times, in table order.
RECURSIVE RarityList(_, _)
RarityList(table, k) ==
  IF k > Len(table) THEN <<>>
  ELSE [i \in 1..table[k].count |-> table[k].code] \o RarityList(table, k + 1)

Seeds == {"s1", "s2"}

\* parseInt(state.slice(0, 8), 16) ranges over 0..0xffffffff; the range is
\* scaled to 0..MaxPrefix, MaxPrefix standing for 0xffffffff.
MaxPrefix == 3
ChainPeriod == 2

\* The hash chain of a seed, by the prefixes it yields: Chains(n)[i] is the
\* prefix of the state at loop index i (state = sha256(state + i)).  Which
\* prefixes sha256 yields for a seed is not computed: every prefix sequence
\* is taken, repeating after ChainPeriod draws.
Chains(n) ==
  { [i \in 1..(n - 1) |-> c[((i - 1) % ChainPeriod) + 1]] :
      c \in [1..ChainPeriod -> 0..MaxPrefix] }

\* Math.floor(r * (i + 1)) with r = prefix / 0xffffffff; SwapIndexByClock
\* is an index that also moves with the time of the run.
SwapIndexByClock(prefix, i) == ((prefix * (i + 1)) \div MaxPrefix + now \div 20) % (i + 1)
SwapIndex(prefix, i) == (prefix * (i + 1)) \div MaxPrefix

\* [out[i], out[j]] = [out[j], out[i]] on a list held from position 1: the
\* code's indices i and j are positions i + 1 and j + 1.  An index past the
\* end reads undefined (NULL) and the write makes the list longer.
Swap(out, i, j) ==
  LET at(k) == IF k + 1 \in DOMAIN out THEN out[k + 1] ELSE NULL
      len == IF j + 1 > Len(out) THEN j + 1 ELSE Len(out)
  IN [k \in 1..len |-> IF k = i + 1 THEN at(j) ELSE IF k = j + 1 THEN at(i) ELSE at(k - 1)]

\* The loop of shuffleWithSeed, from index i down to 1.
RECURSIVE ShuffleFrom(_, _, _)
ShuffleFrom(out, chain, i) ==
  IF i < 1 THEN out
  ELSE ShuffleFrom(Swap(out, i, SwapIndex(chain[i], i)), chain, i - 1)

shuffleWithSeed(list, chain) == ShuffleFrom(list, chain, Len(list) - 1)

\* sha256(`${seed}|${irisId}|${rarity}`).slice(0, 16)
Nonce(seed, irisId, rarity) == <<"sha256/16", <<seed, irisId, rarity>>>>

\* buildRarityAssignments from the shuffled ids on: position i gets tier
\* rarityList[i], its nonce and its leaf.
buildRarityAssignments(seed, shuffledIds, table) ==
  LET rarityList == RarityList(table, 1)
  IN [i \in 1..Len(shuffledIds) |->
        LET irisId == shuffledIds[i]
            rarity == IF i \in DOMAIN rarityList THEN rarityList[i] ELSE NoText
            nonce == Nonce(seed, irisId, rarity)
        IN [irisId |-> irisId, rarity |-> rarity, nonce |-> nonce,
            leaf |-> computeLeaf(irisId, rarity, nonce)]]

\* The state of the rarity commit script (src/README.md).
IdleRarity ==
  [pc |-> "idle", seed |-> NoText, chain |-> <<>>, counts |-> <<>>,
   assignments |-> <<>>, leaves |-> <<>>, tree |-> <<>>,
   root |-> NoHash, written |-> <<>>,
   prev |-> [seed |-> NoText, chain |-> <<>>, counts |-> <<>>,
             assignments |-> <<>>, root |-> NoHash]]

\* assignments, leaves, tree and root are computed; the ids are 1..n with
\* n the total of the table.  The table is a constant of the code and the
\* chain is sha256 of the seed: a run after an earlier one has the same
\* table, and the same chain when it has the same seed.
RarityBuild(seed, chain, table) ==
  /\ rar.pc = "idle"
  /\ rar.prev.seed # NoText => table = rar.prev.counts
  /\ rar.prev.seed = seed => chain = rar.prev.chain
  /\ LET ids == [i \in 1..Len(RarityList(table, 1)) |-> i]
         shuffledIds == shuffleWithSeed(ids, chain)
         assignments == buildRarityAssignments(seed, shuffledIds, table)
         leaves == [i \in 1..Len(assignments) |-> assignments[i].leaf]
         tree == buildMerkleTree(leaves)
     IN rar' = [rar EXCEPT !.pc = "write", !.seed = seed, !.chain = chain,
                           !.counts = table, !.assignments = assignments,
                           !.leaves = leaves, !.tree = tree,
                           !.root = getMerkleRoot(tree)]
  /\ UNCHANGED <<now, art, res, ev, receipts, alloc, hook, ver, act, sweep, got>>

\* One pass of the script's loop: the unit's tier, nonce, proof and the
\* root are stored; after the last unit the root is published.  An update
\* whose iris_id is undefined is rejected and the script stops.
RarityWrite ==
  /\ rar.pc = "write"
  /\ LET i == Len(rar.written)
     IN rar' = IF i < Len(rar.assignments) /\ rar.assignments[i + 1].irisId = NULL
               THEN [rar EXCEPT !.pc = "failed"]
               ELSE IF i < Len(rar.assignments)
               THEN [rar EXCEPT !.written =
                       Append(@, [irisId |-> rar.assignments[i + 1].irisId,
                                  rarity_code |-> rar.assignments[i + 1].rarity,
                                  nonce |-> rar.assignments[i + 1].nonce,
                                  proof |-> getMerkleProof(rar.tree, i),
                                  root |-> rar.root])]
               ELSE [rar EXCEPT !.pc = "done"]
  /\ UNCHANGED <<now, art, res, ev, receipts, alloc, hook, ver, act, sweep, got>>

\* The script is run once more, after it has ended or stopped.
RarityAgain ==
  /\ rar.pc \in {"done", "failed"}
  /\ rar.prev.seed = NoText
  /\ rar' = [IdleRarity EXCEPT !.prev =
               [seed |-> rar.seed, chain |-> rar.chain, counts |-> rar.counts,
                assignments |-> rar.assignments, root |-> rar.root]]
  /\ UNCHANGED <<now, art, res, ev, receipts, alloc, hook, ver, act, sweep, got>>

\* buildMerkleTree and getMerkleRoot applied to a list of leaves.
MerkleApply(leaves) ==
  /\ rar.pc = "idle"
  /\ LET tree == buildMerkleTree(leaves)
     IN rar' = [rar EXCEPT !.pc = "done", !.leaves = leaves, !.tree = tree,
                           !.root = getMerkleRoot(tree)]
  /\ UNCHANGED <<now, art, res, ev, receipts, alloc, hook, ver, act, sweep, got>>

\* ------------------------------------------- GET /apps/iris/proof/:irisId
\* The reply to the last GET request, with the parameters it was sent.
NoGot ==
  [route |-> NoText, id |-> NULL, token |-> NULL, code |-> 0, error |-> NoText,
   iris_id |-> NULL, rarity_code |-> NoText, root |-> NoHash, proof |-> <<>>,
   nonce |-> <<>>, valid |-> FALSE,
   pc |-> "idle", email |-> NoText, missing |-> {}, links |-> {}, calls |-> 0]

\* value.toUpperCase().replace(/[^A-Z0-9-]/g, ""): a path parameter is
\* <<spelling, n>>; the upper-case and the lower-case spelling of unit n
\* both give its id, and one made of other characters only gives the empty
\* string (NULL).
sanitizeIrisId(value) == IF value[1] \in {"IRIS", "iris"} THEN value[2] ELSE NULL

\* !query.token || item.proof_token !== query.token, negated (token 0: the
\* query has no token).
TokenPresent(item, token) == token # 0
TokenMatches(item, token) == token # 0 /\ item.proof_token = token

\* One findUnique, then the reply: 400 for an empty id, 404 unless the unit
\* is activated, has rarity_code and rarity_proof (both written by the
\* commit script) and the token matches; else the payload, with valid
\* computed by verifyMerkleProof.
ProofGet(value, token) ==
  LET irisId == sanitizeIrisId(value)
      req == [NoGot EXCEPT !.route = "proof", !.id = value, !.token = token]
      stored == { k \in 1..Len(rar.written) : rar.written[k].irisId = irisId }
  IN /\ got' =
          IF irisId = NULL THEN [req EXCEPT !.code = 400, !.error = "invalid_iris_id"]
          ELSE IF \/ irisId \notin Units
                  \/ art[irisId].status # "activated"
                  \/ stored = {}
                  \/ ~TokenMatches(art[irisId], token)
               THEN [req EXCEPT !.code = 404, !.error = "not_found"]
          ELSE LET proof == rar.written[CHOOSE k \in stored : TRUE]
                   leaf == computeLeaf(irisId, proof.rarity_code, proof.nonce)
               IN [req EXCEPT !.code = 200, !.iris_id = irisId,
                              !.rarity_code = proof.rarity_code, !.root = proof.root,
                              !.proof = proof.proof, !.nonce = proof.nonce,
                              !.valid = verifyMerkleProof(leaf, proof.proof, proof.root)]
     /\ UNCHANGED <<now, art, res, ev, receipts, alloc, hook, ver, act, sweep, rar>>

\* ------------------------------------------------- GET /apps/iris/my-iris
MaxMyIris == 2

\* 400 without an email.  Else findMany of the activated units whose owner
\* is the email (or, with no owner, whose buyer is); for those without a
\* proof_token one transaction stores a fresh crypto.randomUUID() each; the
\* reply carries a passport link <<unit, token>> for every unit found.
MyIris ==
  \/ /\ got.pc # "tx" /\ got.calls < MaxMyIris
     /\ got' = [NoGot EXCEPT !.route = "my-iris", !.pc = "done", !.code = 400,
                             !.error = "missing_email", !.calls = got.calls + 1]
     /\ UNCHANGED <<now, art, res, ev, receipts, alloc, hook, ver, act, sweep, rar>>
  \/ /\ got.pc # "tx" /\ got.calls < MaxMyIris
     /\ \E email \in Emails :
          LET items == { u \in Units :
                          /\ art[u].status = "activated"
                          /\ \/ art[u].owner_email = email
                             \/ /\ art[u].owner_email = NoText
                                /\ art[u].assigned_customer_email = email }
              missing == { u \in items : art[u].proof_token = NULL }
              req == [NoGot EXCEPT !.route = "my-iris", !.email = email,
                        !.calls = got.calls + 1, !.missing = missing,
                        !.links = { <<u, art[u].proof_token>> : u \in items \ missing }]
          IN got' = IF missing = {} THEN [req EXCEPT !.pc = "done", !.code = 200]
                    ELSE [req EXCEPT !.pc = "tx"]
     /\ UNCHANGED <<now, art, res, ev, receipts, alloc, hook, ver, act, sweep, rar>>
  \/ /\ got.pc = "tx"
     /\ \A u \in got.missing : ~ArtLocked(u)
     /\ LET token(u) == FreshUuid(100 * got.calls + u)
        IN /\ art' = [u \in Units |->
                        IF u \in got.missing THEN [art[u] EXCEPT !.proof_token = token(u)]
                        ELSE art[u]]
           /\ got' = [got EXCEPT !.pc = "done", !.code = 200, !.missing = {},
                        !.links = @ \cup { <<u, token(u)>> : u \in got.missing }]
     /\ UNCHANGED <<now, res, ev, receipts, alloc, hook, ver, act, sweep, rar>>

\* ------------------------------------------------------------ the system
Max(a, b) == IF a > b THEN a ELSE b

\* The registry after prisma/seed.ts: every unit available, nothing else.
Init ==
  /\ now = 0
  /\ art = [u \in Units |-> SeedArtwork]
  /\ res = <<>>
  /\ ev = [u \in Units |-> <<>>]
  /\ receipts = {}
  /\ alloc = [c \in Callers |-> IdleCaller]
  /\ hook = [w \in 1..Max(NumHooks, NumDeliveries) |-> IdleHook]
  /\ ver = [v \in 1..Max(NumVerifiers, MaxCalls) |-> IdleVerifier]
  /\ act = [a \in Activators |-> IdleActivator]
  /\ sweep = [s \in Sweeps |-> IdleSweep]
  /\ rar = IdleRarity
  /\ got = NoGot

ReserveRandom(c) == ReserveSelect(c) \/ ReserveNone(c) \/ ReserveCommit(c)

\* The tokens a payload can carry: those handed out so far, and one that
\* names no reservation.
PayloadTokens == Tokens \cup {0}

\* POST /webhooks/shopify/orders-paid with a body of bodies.
OrdersPaidOf(w, bodies) ==
  \/ /\ MayStart(hook, w)
     /\ \E id \in DeliveryIds \cup {NULL}, body \in bodies :
          \E hmac \in HmacHeaders(body) :
            HookReject(w, id, body, hmac) \/ HookDuplicate(w, id, body, hmac)
              \/ HookReceipt(w, id, body, hmac)
  \/ ConfirmRead(w) \/ ConfirmLock(w) \/ ConfirmCommit(w)
  \/ OwnershipRecorded(w) \/ OwnershipFailed(w)

OrdersPaid(w) == OrdersPaidOf(w, Bodies(PayloadTokens))

releaseExpiredReservations(s) == SweepFind(s) \/ SweepRelease(s)

Activate(a) ==
  \/ /\ MayStart(act, a)
     /\ \E u \in IrisIds, email \in Emails \cup {NoText} :
          ActivateNotFound(a, u, email) \/ ActivateUpdate(a, u, email)
  \/ ActivateBadRequest(a)
  \/ ActivateEvent(a)

handleActivateVerify(v) ==
  \/ /\ MayStart(ver, v)
     /\ \E u \in IrisIds, pin \in Pins, email \in Emails : VerifyRead(v, u, pin, email)
  \/ VerifyBadRequest(v)
  \/ VerifyMismatch(v)
  \/ \E inviteOk \in BOOLEAN : VerifyMatch(v, inviteOk)

\* The requests and sweeps started so far.
Busy(procs) == Cardinality({i \in DOMAIN procs : procs[i].pc # "idle"})
Started == Busy(alloc) + Busy(hook) + Busy(ver) + Busy(act) + Busy(sweep)

\* A request or sweep that has started goes on; a new one is admitted while
\* fewer than MaxOps have started.
Admitted(procs, i) == procs[i].pc # "idle" \/ Started < MaxOps

\* Every handler and the sweep, interleaved at their awaits.
Next ==
  \/ Tick(MaxTicks)
  \/ \E c \in Callers : Admitted(alloc, c) /\ ReserveRandom(c)
  \/ \E w \in Hooks : Admitted(hook, w) /\ OrdersPaid(w)
  \/ \E s \in Sweeps : Admitted(sweep, s) /\ releaseExpiredReservations(s)
  \/ \E a \in Activators : Admitted(act, a) /\ Activate(a)
  \/ \E v \in Verifiers : Admitted(ver, v) /\ handleActivateVerify(v)

Spec == Init /\ [][Next]_vars

\* ------------------------------------------------------ scenario: allocation
\* The reservations earlier reserve-random calls left on the units of K
\* (made at time 0, numbered in unit order), from unit k up.
RECURSIVE Held(_, _)
Held(K, k) ==
  IF k > NumUnits THEN <<>>
  ELSE IF k \in K
       THEN <<[iris_id |-> k, status |-> "active", expires_at |-> reservationTtlMinutes]>>
              \o Held(K, k + 1)
       ELSE Held(K, k + 1)

\* The registry after the units of K were reserved at time 0.
InitHeld(K) ==
  /\ now = 0
  /\ art = [u \in Units |-> IF u \in K THEN [SeedArtwork EXCEPT !.status = "reserved"]
                                      ELSE SeedArtwork]
  /\ res = Held(K, 1)
  /\ ev = [u \in Units |->
             IF u \in K
             THEN <<[type |-> "reserved", actor |-> "system",
                     reservation_token |-> Cardinality({k \in K : k <= u}),
                     expires_at |-> reservationTtlMinutes]>>
             ELSE <<>>]
  /\ receipts = {}
  /\ alloc = [c \in Callers |-> IdleCaller]
  /\ hook = [w \in 1..Max(NumHooks, NumDeliveries) |-> IdleHook]
  /\ ver = [v \in 1..Max(NumVerifiers, MaxCalls) |-> IdleVerifier]
  /\ act = [a \in Activators |-> IdleActivator]
  /\ sweep = [s \in Sweeps |-> IdleSweep]
  /\ rar = IdleRarity
  /\ got = NoGot

\* NumCallers concurrent reserve-random calls against a pool of which any
\* part is already reserved; nothing else runs.
InitAlloc == \E K \in SUBSET Units : InitHeld(K)

NextAlloc == Tick(MaxTicks) \/ \E c \in Callers : ReserveRandom(c)

SpecAlloc == InitAlloc /\ [][NextAlloc]_vars

\* ------------------------------------------------- scenario: the purchase path
\* reserve-random, the orders-paid webhook and overlapping sweeps.
NextPurchase ==
  \/ Tick(MaxTicks)
  \/ \E c \in Callers : ReserveRandom(c)
  \/ \E w \in Hooks : OrdersPaid(w)
  \/ \E s \in Sweeps : releaseExpiredReservations(s)

SpecPurchase == Init /\ [][NextPurchase]_vars

\* --------------------------------------------------- scenario: the webhook
\* NumDeliveries deliveries, concurrent or one after another, against a
\* pool of which any part is reserved.
InitHook == \E K \in SUBSET Units : InitHeld(K)

NextHook == Tick(MaxTicks) \/ \E w \in Deliveries : OrdersPaid(w)

SpecHook == InitHook /\ [][NextHook]_vars

\* ------------------------------------------------ scenario: the PIN lockout
\* Unit 1 as a confirmed order leaves it: assigned, with a PIN.
GateUnit == 1

InitGate ==
  \E p \in Pins :
    /\ now = 0
    /\ art = [u \in Units |->
                IF u = GateUnit
                THEN [SeedArtwork EXCEPT !.status = "assigned",
                                         !.assigned_order_id = "#1001",
                                         !.assigned_customer_email = "a@iris.test",
                                         !.pin_code = p, !.pin_last4 = Last4(p)]
                ELSE SeedArtwork]
    /\ res = <<[iris_id |-> GateUnit, status |-> "confirmed",
                expires_at |-> reservationTtlMinutes]>>
    /\ ev = [u \in Units |->
               IF u = GateUnit
               THEN <<[type |-> "reserved", actor |-> "system", reservation_token |-> 1,
                       expires_at |-> reservationTtlMinutes],
                      [type |-> "assigned", actor |-> "shopify", reservation_token |-> 1,
                       order_number |-> "#1001", customer_email |-> "a@iris.test"],
                      [type |-> "pin_generated", actor |-> "system", pin_last4 |-> Last4(p)]>>
               ELSE <<>>]
    /\ receipts = {1}
    /\ alloc = [c \in Callers |-> IdleCaller]
    /\ hook = [w \in 1..Max(NumHooks, NumDeliveries) |-> IdleHook]
    /\ ver = [v \in 1..Max(NumVerifiers, MaxCalls) |-> IdleVerifier]
    /\ act = [a \in Activators |-> IdleActivator]
    /\ sweep = [s \in Sweeps |-> IdleSweep]
    /\ rar = IdleRarity
    /\ got = NoGot

\* Verify calls on the unit, each sent after the reply to the one before.
GateCall(v) ==
  \/ /\ MayStart(ver, v)
     /\ v > 1 => ver[v - 1].pc = "done"
     /\ \E pin \in Pins : VerifyRead(v, GateUnit, pin, "a@iris.test")
  \/ VerifyMismatch(v)
  \/ \E inviteOk \in BOOLEAN : VerifyMatch(v, inviteOk)

NextGate == Tick(GateTicks) \/ \E v \in Calls : GateCall(v)

SpecGate == InitGate /\ [][NextGate]_vars

\* ------------------------------------------- scenario: best-effort steps
\* Unit 1 assigned by a confirmed order (delivery id 0), every other unit
\* reserved; one delivery and one verify call, whose downstream steps may
\* fail.
InitBestEffort ==
  \E p \in Pins :
    /\ now = 0
    /\ art = [u \in Units |->
                IF u = GateUnit
                THEN [SeedArtwork EXCEPT !.status = "assigned",
                                         !.assigned_order_id = "#1001",
                                         !.assigned_customer_email = "a@iris.test",
                                         !.pin_code = p, !.pin_last4 = Last4(p)]
                ELSE [SeedArtwork EXCEPT !.status = "reserved"]]
    /\ res = [t \in Units |->
                [iris_id |-> t,
                 status |-> IF t = GateUnit THEN "confirmed" ELSE "active",
                 expires_at |-> reservationTtlMinutes]]
    /\ ev = [u \in Units |->
               <<[type |-> "reserved", actor |-> "system", reservation_token |-> u,
                  expires_at |-> reservationTtlMinutes]>>
               \o IF u = GateUnit
                  THEN <<[type |-> "assigned", actor |-> "shopify", reservation_token |-> u,
                          order_number |-> "#1001", customer_email |-> "a@iris.test"],
                         [type |-> "pin_generated", actor |-> "system",
                          pin_last4 |-> Last4(p)]>>
                  ELSE <<>>]
    /\ receipts = {0}
    /\ alloc = [c \in Callers |-> IdleCaller]
    /\ hook = [w \in 1..Max(NumHooks, NumDeliveries) |-> IdleHook]
    /\ ver = [v \in 1..Max(NumVerifiers, MaxCalls) |-> IdleVerifier]
    /\ act = [a \in Activators |-> IdleActivator]
    /\ sweep = [s \in Sweeps |-> IdleSweep]
    /\ rar = IdleRarity
    /\ got = NoGot

NextBestEffort ==
  \/ Tick(MaxTicks)
  \/ \E w \in Hooks : OrdersPaid(w)
  \/ \E v \in Verifiers : handleActivateVerify(v)

SpecBestEffort == InitBestEffort /\ [][NextBestEffort]_vars

\* ------------------------------------------------ scenario: repeated orders
\* Every unit reserved; deliveries that may name the same or different
\* reservations, a sweep, and a reserve-random call for a released unit.
RetryCallers == 1
RetrySweeps == 1

NextRetry ==
  \/ Tick(MaxTicks)
  \/ \E c \in 1..RetryCallers : ReserveRandom(c)
  \/ \E s \in 1..RetrySweeps : releaseExpiredReservations(s)
  \/ \E w \in Deliveries : OrdersPaid(w)

SpecRetry == InitHeld(Units) /\ [][NextRetry]_vars

\* ------------------------------------------ scenario: several line items
\* One delivery of an order whose line items carry up to MaxLineItems
\* reservation tokens, repeats and tokens of no reservation included,
\* while every unit is held and the clock runs.
ItemBodies ==
  { [order |-> o, tokens |-> ts] :
      o \in Orders, ts \in UNION { [1..n -> PayloadTokens] : n \in 0..MaxLineItems } }

NextItems == Tick(MaxTicks) \/ OrdersPaidOf(1, ItemBodies)

SpecItems == InitHeld(Units) /\ [][NextItems]_vars

\* ------------------------------------------------ scenario: the Reaper
\* setInterval(() => void releaseExpiredReservations(app), intervalMs): a
\* run that has returned leaves its place to the run of a later firing;
\* runs overlap when one outlasts the interval.
SweepAgain(s) ==
  /\ sweep[s].pc = "done"
  /\ \A s2 \in Sweeps : s2 > s => sweep[s2].pc = "idle"
  /\ sweep' = [sweep EXCEPT ![s] = IdleSweep]
  /\ UNCHANGED <<now, art, res, ev, receipts, alloc, hook, ver, act, rar, got>>

Reaper(s) == releaseExpiredReservations(s) \/ SweepAgain(s)

\* An open transaction that holds a row lock commits.
ReserveGoesOn(c) == ReserveCommit(c)
HookGoesOn(w) == ConfirmCommit(w)

ReaperCallers == 1

\* Every unit is held; the clock runs, the timer keeps firing, a caller
\* asks for a unit and an order is delivered.
NextReaper ==
  \/ Tick(MaxTicks)
  \/ \E s \in Sweeps : Reaper(s)
  \/ \E c \in 1..ReaperCallers : ReserveRandom(c)
  \/ OrdersPaidOf(1, {b \in Bodies(PayloadTokens) : b.order.name = "#1001"})

SpecReaper ==
  /\ InitHeld(Units)
  /\ [][NextReaper]_vars
  /\ \A s \in Sweeps : WF_vars(Reaper(s))
  /\ \A c \in 1..ReaperCallers : WF_vars(ReserveGoesOn(c))
  /\ WF_vars(HookGoesOn(1))

\* --------------------------------------------- scenario: the commitment
\* Leaves a caller may pass to buildMerkleTree: lists, repeats included,
\* over two leaves.
FreeLeaves ==
  UNION { [1..n -> {computeLeaf(1, "Common", Nonce("s1", 1, "Common")),
                    computeLeaf(2, "Rare", Nonce("s1", 2, "Rare"))}] : n \in 1..MaxFreeLeaves }

NextRarity ==
  \/ \E seed \in Seeds, n \in 1..MaxLeaves :
       \E chain \in Chains(n), table \in RarityTables(n) :
         RarityBuild(seed, chain, table)
  \/ RarityWrite
  \/ \E leaves \in FreeLeaves : MerkleApply(leaves)

SpecRarity == Init /\ [][NextRarity]_vars

\* ------------------------------------------- scenario: verify on any row
\* The rows of unit 1 that handleActivateVerify can read: every status, with
\* or without a PIN (pin_code is a nullable column added by a migration, so
\* a unit assigned before it has none), with or without a lockout
\* timestamp.
GateRows ==
  { [SeedArtwork EXCEPT !.status = st, !.pin_code = p,
                        !.pin_last4 = IF p = NULL THEN NULL ELSE Last4(p),
                        !.pin_attempts = IF lk = NULL THEN 0 ELSE MAX_ATTEMPTS,
                        !.pin_locked_until = lk] :
      st \in {"available", "reserved", "assigned", "shopify_failed", "activated"},
      p \in {NULL, 4271},
      lk \in {NULL, reservationTtlMinutes, LOCK_MINUTES} }

InitRows ==
  \E row \in GateRows :
    /\ now = 0
    /\ art = [u \in Units |-> IF u = GateUnit THEN row ELSE SeedArtwork]
    /\ res = <<>>
    /\ ev = [u \in Units |-> <<>>]
    /\ receipts = {}
    /\ alloc = [c \in Callers |-> IdleCaller]
    /\ hook = [w \in 1..Max(NumHooks, NumDeliveries) |-> IdleHook]
    /\ ver = [v \in 1..Max(NumVerifiers, MaxCalls) |-> IdleVerifier]
    /\ act = [a \in Activators |-> IdleActivator]
    /\ sweep = [s \in Sweeps |-> IdleSweep]
    /\ rar = IdleRarity
    /\ got = NoGot

NextRows == Tick(GateTicks) \/ \E v \in Verifiers : handleActivateVerify(v)

SpecRows == InitRows /\ [][NextRows]_vars

\* ----------------------------------------------- scenario: the proof link
\* Unit 1 is assigned with a PIN; the commit script runs over the units,
\* the unit is activated by verify or by /activate, and its proof is asked
\* for under both spellings of its id, under an unknown id and under an
\* empty one, without a token, with the token 1 and with another.
MaxShuffled == 3

NextRerun ==
  \/ Tick(MaxTicks)
  \/ \E seed \in Seeds, n \in 1..MaxShuffled :
       \E chain \in Chains(n), table \in RarityTables(n) :
         RarityBuild(seed, chain, table)
  \/ RarityWrite
  \/ RarityAgain

SpecRerun == Init /\ [][NextRerun]_vars

\* ---------------------------------------------- scenario: failing sweeps
\* The loop after a pass whose transaction threw: the catch logs the error
\* and the for loop goes on with the next reservation of the batch.
SweepStops(s) == "done"
SweepGoesOn(s) == IF sweep[s].i < Len(sweep[s].expired) THEN "run" ELSE "done"

\* The transaction of one pass throws (the database fails): it is rolled
\* back, the error is logged with the reservation's token.
SweepFailed(s) ==
  /\ sweep[s].pc = "run"
  /\ sweep' = [sweep EXCEPT ![s] =
       [@ EXCEPT !.pc = SweepGoesOn(s), !.i = sweep[s].i + 1,
                 !.failed = @ \cup {sweep[s].i}]]
  /\ UNCHANGED <<now, art, res, ev, receipts, alloc, hook, ver, act, rar, got>>

\* Every unit reserved; sweeps whose passes may fail, and a delivery.
NextFailing ==
  \/ Tick(MaxTicks)
  \/ \E s \in Sweeps : releaseExpiredReservations(s)
  \/ \E s \in Sweeps : SweepFailed(s)
  \/ \E w \in Hooks : OrdersPaid(w)

SpecFailing == InitHeld(Units) /\ [][NextFailing]_vars

\* ------------------------------------------- scenario: failed deliveries
\* confirmReservation throws an error other than reservation_expired and
\* reservation_not_active (the database fails, the transaction times out):
\* the open transaction is rolled back, the loop's catch rethrows and the
\* reply is 500 reservation_confirm_failed.  The receipt, inserted before
\* and outside the transaction, stays.
ConfirmError(w) ==
  /\ hook[w].pc \in {"loop", "tx_read", "tx_write"}
  /\ hook' = [hook EXCEPT ![w] = Finish(@, 500, "reservation_confirm_failed")]
  /\ UNCHANGED <<now, art, res, ev, receipts, alloc, ver, act, sweep, rar, got>>

\* Deliveries, retries with the same id included, any of which may fail.
NextRedelivery ==
  \/ \E w \in Deliveries : OrdersPaid(w)
  \/ \E w \in Deliveries : ConfirmError(w)

SpecRedelivery == InitHook /\ [][NextRedelivery]_vars

\* ------------------------------------------ scenario: concurrent owners
\* Unit 1 assigned with a PIN; NumOwners verify calls that may overlap,
\* POST /activate, and my-iris calls.
NumOwners == 2

NextOwners ==
  \/ \E v \in 1..NumOwners : handleActivateVerify(v)
  \/ \E a \in Activators : Activate(a)
  \/ MyIris

SpecOwners == InitGate /\ [][NextOwners]_vars

NextProof ==
  \/ \E chain \in Chains(NumUnits),
          table \in { t \in RarityTables(NumUnits) : t[1].count = 1 } :
       RarityBuild("s1", chain, table)
  \/ RarityWrite
  \/ \E v \in Verifiers : handleActivateVerify(v)
  \/ \E a \in Activators : Activate(a)
  \/ \E value \in {<<"IRIS", GateUnit>>, <<"iris", GateUnit>>, <<"IRIS", 0>>, <<"?", 0>>},
          token \in 0..2 :
       ProofGet(value, token)

SpecProof == InitGate /\ [][NextProof]_vars

\* ------------------------------------------------------------------ claims
\* C1: of NumCallers concurrent reserve-random calls issued while M <
\* NumCallers units are available, exactly M are granted a reservation and
\* the others are answered 409; the granted calls hold distinct
\* reservations on distinct units; a call answered 409 changes no unit, no
\* reservation and no event.  (M is the pool less the reservations that
\* were not made by these calls.)
C1_ExactlyMGranted ==
  /\ [](LET granted == {c \in Callers : alloc[c].pc = "done" /\ alloc[c].code = 200}
            refused == {c \in Callers : alloc[c].pc = "done" /\ alloc[c].code = 409}
            m == NumUnits - (Len(res) - Cardinality(granted))
        IN /\ \A c, d \in granted :
                c # d => /\ alloc[c].token # alloc[d].token
                         /\ res[alloc[c].token].iris_id # res[alloc[d].token].iris_id
           /\ \A c \in granted : /\ res[alloc[c].token].iris_id = alloc[c].iris
                                 /\ art[alloc[c].iris].status = "reserved"
           /\ (m < NumCallers /\ \A c \in Callers : alloc[c].pc = "done")
                => /\ Cardinality(granted) = m
                   /\ Cardinality(refused) = NumCallers - m)
  /\ [][\A c \in Callers :
          (alloc[c].code # 409 /\ alloc'[c].code = 409) => UNCHANGED <<art, res, ev>>]_vars

\* C1, the case: some calls were granted, some refused, all have returned.
C1_Witness ==
  /\ \A c \in Callers : alloc[c].pc = "done"
  /\ \E c, d \in Callers : alloc[c].code = 200 /\ alloc[d].code = 409
  /\ Len(res) > Cardinality({c \in Callers : alloc[c].code = 200})

\* C2: at most one reservation with status active references a unit, under
\* any interleaving of reserve-random, the webhook and overlapping sweeps.
C2_OneActivePerUnit ==
  \A u \in Units :
    Cardinality({t \in Tokens : res[t].iris_id = u /\ res[t].status = "active"}) <= 1

\* C3: a unit has status reserved if and only if a reservation with status
\* active references it.
C3_ReservedIffActive ==
  \A u \in Units :
    art[u].status = "reserved"
      <=> \E t \in Tokens : res[t].iris_id = u /\ res[t].status = "active"

\* C4: every change of a unit's status follows an edge of the transition
\* table; in particular an activated unit never changes status.
C4_TableEdges ==
  [][\A u \in Units :
       art'[u].status # art[u].status
         => <<art[u].status, art'[u].status>> \in
              { <<"available", "reserved">>, <<"reserved", "available">>,
                <<"reserved", "assigned">>, <<"assigned", "shopify_failed">>,
                <<"assigned", "activated">> }]_vars

\* C5: a unit becomes activated only in a step of a verify call on it in
\* which the unit is assigned, the supplied PIN equals the stored PIN and
\* no lockout timestamp lies in the future.
C5_ActivatedOnlyByPin ==
  [][\A u \in Units :
       (art[u].status # "activated" /\ art'[u].status = "activated")
         => /\ art[u].status = "assigned"
            /\ art[u].pin_code # NULL
            /\ ~(art[u].pin_locked_until # NULL /\ art[u].pin_locked_until > now)
            /\ \E v \in DOMAIN ver : /\ ver[v].pc = "match" /\ ver'[v].pc = "done"
                                     /\ ver[v].iris = u
                                     /\ ver[v].pin = art[u].pin_code]_vars

\* C6: per delivery id at most one delivery gets past the receipt insert;
\* an authentic delivery whose id another delivery has taken past it is
\* answered 200 "duplicate" and changes no unit, reservation, event or
\* receipt.
C6_OnePassPerId ==
  /\ [](\A w, x \in Deliveries :
          LET passed(y) == \/ hook[y].pc \in {"loop", "tx_read", "tx_write", "notify"}
                           \/ hook[y].reply \in {"ok", "partial", "missing_reservation_token"}
          IN (w # x /\ passed(w) /\ passed(x)) => hook[w].id # hook[x].id)
  /\ [][\A w \in Deliveries :
          (/\ hook[w].pc = "idle" /\ hook'[w].pc # "idle"
           /\ hook'[w].signed /\ hook'[w].id # NULL
           /\ \E x \in Deliveries \ {w} :
                /\ hook[x].id = hook'[w].id
                /\ \/ hook[x].pc \in {"loop", "tx_read", "tx_write", "notify"}
                   \/ hook[x].reply \in {"ok", "partial", "missing_reservation_token"})
          => /\ hook'[w].pc = "done" /\ hook'[w].code = 200 /\ hook'[w].reply = "duplicate"
             /\ UNCHANGED <<art, res, ev, receipts>>]_vars

\* C6, the case: a delivery confirmed its order and a second delivery of
\* the same id was answered "duplicate".
C6_Witness ==
  \E w, x \in Deliveries :
    /\ hook[w].reply = "ok" /\ hook[x].reply = "duplicate" /\ hook[x].code = 200
    /\ hook[w].id = hook[x].id
    /\ \E t \in Tokens : res[t].status = "confirmed"

\* C7: a delivery whose header is not the MAC of its raw body under the
\* shop's secret is answered with a rejection in the step that receives it,
\* and that step changes no receipt, reservation, unit or event.
C7_BadSignatureRejected ==
  [][\A w \in Deliveries :
       (hook[w].pc = "idle" /\ hook'[w].pc # "idle" /\ ~hook'[w].signed)
         => /\ hook'[w].pc = "done"
            /\ hook'[w].code \in {400, 401}
            /\ hook'[w].reply \in {"missing_hmac", "missing_webhook_id", "invalid_hmac"}
            /\ UNCHANGED <<art, res, ev, receipts>>]_vars

\* C7, the case: a delivery was rejected for its signature and a later
\* delivery with the same id confirmed its order.
C7_Witness ==
  \E w, x \in Deliveries :
    /\ w < x
    /\ hook[w].reply = "invalid_hmac" /\ ~hook[w].signed
    /\ hook[x].reply = "ok" /\ hook[x].id = hook[w].id
    /\ \E t \in Tokens : res[t].status = "confirmed"

C9_ExpiredPersisted ==
  \A w \in Deliveries :
    hook[w].pc = "done"
      => \A i \in DOMAIN hook[w].failed :
           hook[w].failed[i].error = "reservation_expired"
             => res[hook[w].failed[i].token].status = "expired"

\* C10: on an assigned unit the attempt counter equals the number of
\* invalid_pin replies and the lockout is set exactly when it has reached
\* MAX_ATTEMPTS, to LOCK_MINUTES after the clock reading of the failing
\* call; a call received while the lockout timestamp is in the future,
\* whatever its PIN, is answered 429 too_many_attempts with that timestamp
\* and changes nothing; a call received when it is not goes to the PIN
\* comparison, and a call with the stored PIN activates the unit.
C10_Lockout ==
  /\ [](LET wrong == Cardinality({v \in Calls : ver[v].reply = "invalid_pin"})
        IN art[GateUnit].status = "assigned"
             => /\ art[GateUnit].pin_attempts = wrong
                /\ art[GateUnit].pin_locked_until # NULL <=> wrong >= MAX_ATTEMPTS)
  /\ [][\A v \in Calls :
          /\ (ver[v].pc = "idle" /\ ver'[v].pc # "idle" /\ art[GateUnit].status = "assigned")
               => IF art[GateUnit].pin_locked_until # NULL
                     /\ art[GateUnit].pin_locked_until > now
                  THEN /\ ver'[v].pc = "done" /\ ver'[v].code = 429
                       /\ ver'[v].reply = "too_many_attempts"
                       /\ ver'[v].retry_at = art[GateUnit].pin_locked_until
                       /\ UNCHANGED <<art, ev>>
                  ELSE /\ ver'[v].pc = IF ver'[v].pin = art[GateUnit].pin_code
                                       THEN "match" ELSE "mismatch"
                       /\ ver'[v].pc = "mismatch"
                            => ver'[v].lockUntil =
                                 IF art[GateUnit].pin_attempts + 1 >= MAX_ATTEMPTS
                                 THEN now + LOCK_MINUTES ELSE NULL
          /\ (ver[v].pc = "mismatch" /\ ver'[v].pc = "done")
               => /\ ver'[v].code = 401 /\ ver'[v].reply = "invalid_pin"
                  /\ art'[GateUnit].pin_locked_until = ver[v].lockUntil
                  /\ art'[GateUnit].status = "assigned"
          /\ (ver[v].pc = "match" /\ ver'[v].pc = "done")
               => /\ ver'[v].code = 200 /\ ver'[v].reply = "ok"
                  /\ art'[GateUnit].status = "activated"]_vars

\* C10, the case: five calls failed, a call was then refused as locked,
\* and after the lockout timestamp a call with the PIN activated the unit.
C10_Witness ==
  /\ Cardinality({v \in Calls : ver[v].reply = "invalid_pin"}) = MAX_ATTEMPTS
  /\ \E v, x \in Calls :
       /\ v < x
       /\ ver[v].reply = "too_many_attempts" /\ ver[v].retry_at = LOCK_MINUTES
       /\ ver[x].reply = "ok"
  /\ art[GateUnit].status = "activated"
  /\ now >= LOCK_MINUTES

\* C11: the step that handles a failed ownership notification changes only
\* the unit's status (to shopify_failed) and appends one SHOPIFY_ERROR
\* event: the reservation stays confirmed, the PIN, order reference and
\* buyer email stay, and the delivery goes on to its next token or its 200
\* reply; the match step of a verify call activates the unit and replies
\* 200 ok whether the invite succeeded or not.
C11_BestEffortKeepsCommit ==
  [][/\ \A w \in Hooks :
          (hook[w].pc = "notify" /\ hook'[w].pc # "notify" /\ ev' # ev)
            => LET u == hook[w].iris
               IN /\ res' = res
                  /\ art' = [art EXCEPT ![u].status = "shopify_failed"]
                  /\ art'[u].pin_code = hook[w].pin
                  /\ ev' = [ev EXCEPT ![u] =
                              Append(@, [type |-> "SHOPIFY_ERROR", actor |-> "shopify",
                                         reservation_token |-> hook[w].token])]
                  /\ hook'[w].pc \in {"loop", "done"}
                  /\ hook'[w].pc = "done"
                       => hook'[w].code = 200 /\ hook'[w].reply \in {"ok", "partial"}
     /\ \A v \in Verifiers :
          (ver[v].pc = "match" /\ ver'[v].pc # "match")
            => /\ art'[ver[v].iris].status = "activated"
               /\ ver'[v].pc = "done" /\ ver'[v].code = 200 /\ ver'[v].reply = "ok"]_vars

\* C11, the case: a delivery whose ownership notification failed was
\* answered 200 with the reservation confirmed and the PIN, order and
\* email kept, and a verify call whose invite failed reported success on
\* a unit that is activated.
C11_Witness ==
  /\ \E w \in Hooks, u \in Units :
       /\ hook[w].pc = "done" /\ hook[w].code = 200
       /\ art[u].status = "shopify_failed"
       /\ art[u].pin_code # NULL /\ art[u].assigned_order_id # NoText
       /\ \E t \in Tokens : res[t].iris_id = u /\ res[t].status = "confirmed"
       /\ ev[u][Len(ev[u])].type = "SHOPIFY_ERROR"
  /\ \E v \in Verifiers :
       /\ ver[v].reply = "ok" /\ ~ver[v].invited
       /\ art[ver[v].iris].status = "activated"

\* C12: a unit's PIN, once set, is never changed by any step, and a
\* pin_generated event is appended to a unit's trail in exactly the steps
\* that store a PIN on a unit that had none.
C12_PinRetained ==
  [][\A u \in Units :
       /\ art[u].pin_code # NULL => art'[u].pin_code = art[u].pin_code
       /\ (art[u].pin_code = NULL /\ art'[u].pin_code # NULL)
            <=> (/\ Len(ev'[u]) > Len(ev[u])
                 /\ \E i \in (Len(ev[u]) + 1)..Len(ev'[u]) :
                      ev'[u][i].type = "pin_generated")]_vars

\* C13: a unit that is available or reserved has no PIN, no PIN last-4, a
\* zero attempt counter and no lockout timestamp; a unit with any of them
\* is assigned, shopify_failed or activated.
C13_PinFieldsOnlyOnceConfirmed ==
  \A u \in Units :
    (\/ art[u].pin_code # NULL \/ art[u].pin_last4 # NULL
     \/ art[u].pin_attempts # 0 \/ art[u].pin_locked_until # NULL)
      => art[u].status \in {"assigned", "shopify_failed", "activated"}

\* C13, the case: a confirmed unit with a PIN and a failed attempt next to
\* a unit that is reserved.
C13_Witness ==
  \E u, x \in Units :
    /\ art[u].status = "assigned" /\ art[u].pin_code # NULL /\ art[u].pin_attempts > 0
    /\ art[x].status = "reserved" /\ art[x].pin_code = NULL

\* C14: a unit's activation timestamp is set if and only if its status is
\* activated.
C14_ActivatedAtIffActivated ==
  \A u \in Units : art[u].activated_at # NULL <=> art[u].status = "activated"

\* C15: every step that changes a unit's status or the status of a
\* reservation appends at least one event to the trail of that unit.
C15_StatusChangeHasEvent ==
  [][/\ \A u \in Units :
          art'[u].status # art[u].status => Len(ev'[u]) > Len(ev[u])
     /\ \A t \in Tokens :
          res'[t].status # res[t].status
            => Len(ev'[res[t].iris_id]) > Len(ev[res[t].iris_id])
     /\ Len(res') > Len(res)
          => Len(ev'[res'[Len(res')].iris_id]) > Len(ev[res'[Len(res')].iris_id])]_vars

\* C16: for a tree built over n >= 1 leaves, every leaf verifies with its
\* own proof against the root of the tree, levels with an odd node count
\* included; every unit the commit script has written verifies, with the
\* leaf recomputed from its stored fields, against the published root.
C16_EveryLeafVerifies ==
  rar.pc # "idle" =>
    /\ Len(rar.leaves) >= 1
    /\ \A i \in 1..Len(rar.leaves) :
         verifyMerkleProof(rar.leaves[i], getMerkleProof(rar.tree, i - 1),
                           getMerkleRoot(rar.tree))
    /\ \A k \in 1..Len(rar.written) :
         LET w == rar.written[k]
         IN /\ w.root = rar.root
            /\ verifyMerkleProof(computeLeaf(w.irisId, w.rarity_code, w.nonce),
                                 w.proof, w.root)

\* All ten units are written, and the tree has levels of 5 and of 3 nodes
\* whose last node is paired with itself.
C16_Witness ==
  /\ rar.pc = "done"
  /\ Len(rar.written) = 10
  /\ \E l \in 1..Len(rar.tree) : Len(rar.tree[l]) = 5
  /\ \E l \in 1..Len(rar.tree) : Len(rar.tree[l]) = 3
  /\ rar.written[10].proof[1] = rar.leaves[9]
  /\ rar.written[9].proof[2] = rar.tree[2][5]

\* C17: for every written unit, verification against the kept root fails
\* when its tier alone, its nonce alone, or one sibling hash of its proof
\* alone is replaced by a different value.
C17_SingleAlterationFails ==
  \A k \in 1..Len(rar.written) :
    LET w == rar.written[k]
        tiers == {"Common", "Rare", "Legendary"}
        nonces == { Nonce(seed, id, tier) : seed \in Seeds, id \in {w.irisId, 0}, tier \in tiers }
        hashes == {NoHash, computeLeaf(w.irisId, w.rarity_code, w.nonce)}
                    \cup UNION { { rar.tree[l][j] : j \in 1..Len(rar.tree[l]) } : l \in 1..Len(rar.tree) }
    IN /\ \A tier \in tiers \ {w.rarity_code} :
            ~verifyMerkleProof(computeLeaf(w.irisId, tier, w.nonce), w.proof, w.root)
       /\ \A nonce \in nonces \ {w.nonce} :
            ~verifyMerkleProof(computeLeaf(w.irisId, w.rarity_code, nonce), w.proof, w.root)
       /\ \A p \in 1..Len(w.proof) : \A h \in hashes \ {w.proof[p]} :
            ~verifyMerkleProof(computeLeaf(w.irisId, w.rarity_code, w.nonce),
                               [w.proof EXCEPT ![p] = h], w.root)

\* Ten units of both tiers are written, each with a proof of several
\* siblings that verifies unaltered.
C17_Witness ==
  /\ Len(rar.written) = 10
  /\ \E k \in 1..10 : rar.written[k].rarity_code = "Common"
  /\ \E k \in 1..10 : rar.written[k].rarity_code = "Rare"
  /\ \A k \in 1..10 :
       /\ Len(rar.written[k].proof) > 1
       /\ verifyMerkleProof(computeLeaf(rar.written[k].irisId, rar.written[k].rarity_code,
                                        rar.written[k].nonce),
                            rar.written[k].proof, rar.written[k].root)

\* C18: the proof of every leaf of a tree over n >= 1 leaves has exactly
\* ceil(log2 n) siblings, one per level below the root.
C18_ProofLength ==
  LET n == Len(rar.leaves)
      ceilLog2 == CHOOSE k \in 0..n : 2^k >= n /\ \A j \in 0..(k - 1) : 2^j < n
  IN rar.pc # "idle" =>
       /\ \A i \in 1..n :
            /\ Len(getMerkleProof(rar.tree, i - 1)) = ceilLog2
            /\ Len(getMerkleProof(rar.tree, i - 1)) = Len(rar.tree) - 1
       /\ \A k \in 1..Len(rar.written) : Len(rar.written[k].proof) = ceilLog2

\* Ten units: each stored proof has 4 siblings.
C18_Witness ==
  /\ Len(rar.leaves) = 10
  /\ Len(rar.written) = 10
  /\ \A k \in 1..10 : Len(rar.written[k].proof) = 4

\* C19: each token of a payload is handled on its own.  A token whose
\* reservation is missing, not active or expired is recorded as failed with
\* its error, nothing is written for it, and the loop goes on with the next
\* token; any other token goes on to its confirmation, wherever it stands
\* in the payload, and no later step of it adds a failure.  The reply after
\* the last token has code 200 and status "ok" exactly when no token
\* failed, "partial" otherwise, and the failed tokens and the confirmed
\* reservations add up to the tokens of the payload.
C19_EachTokenAlone ==
  [][\A w \in Deliveries :
       LET h == hook[w]
           h2 == hook'[w]
           toks == reservationTokens(h.body)
           goesOn == IF h.k < Len(toks)
                     THEN h2.pc = "loop" /\ h2.k = h.k + 1 /\ h2.body = h.body
                     ELSE h2.pc = "done"
       IN /\ (h.pc = "loop" /\ h2 # h) =>
               LET t == toks[h.k]
                   notActive == t \notin Tokens \/ res[t].status # "active"
                   fails == notActive \/ res[t].expires_at < now
               IN /\ fails =>
                       /\ h2.failed = Append(h.failed,
                            [token |-> t,
                             error |-> IF notActive THEN "reservation_not_active"
                                       ELSE "reservation_expired"])
                       /\ UNCHANGED <<art, res, ev>>
                       /\ goesOn
                  /\ ~fails => h2.pc = "tx_read" /\ h2.token = t /\ h2.failed = h.failed
          /\ (h.pc \in {"tx_read", "tx_write", "notify"} /\ h2 # h) =>
               /\ h2.failed = h.failed
               /\ h2.pc = "notify" => res'[h.token].status = "confirmed"
               /\ h.pc = "notify" => goesOn
          /\ (h.pc \in {"loop", "notify"} /\ h2.pc = "done") =>
               /\ h2.code = 200
               /\ h2.reply = IF Len(h2.failed) = 0 THEN "ok" ELSE "partial"
               /\ Len(h2.failed) + Cardinality({t \in Tokens : res'[t].status = "confirmed"})
                    = Len(toks)]_vars

\* The first token of a payload failed and the second one is confirmed.
C19_Witness ==
  \E w \in Deliveries :
    /\ hook[w].pc = "notify"
    /\ hook[w].k = 2
    /\ Len(hook[w].failed) = 1
    /\ hook[w].failed[1].token # hook[w].token
    /\ res[hook[w].token].status = "confirmed"

\* C20: with the timer firing and every started run and transaction going
\* on, a reservation that is active after its expiry eventually has status
\* expired, unless an order confirms it; its unit, held as reserved, then
\* eventually is available, unless that order took it; and the step that
\* expires a reservation whose unit is reserved leaves the unit available
\* and open to the select of reserve-random.
C20_ExpiredEventuallyReleased ==
  /\ \A t \in 1..(NumUnits + ReaperCallers) :
       [](   (t \in Tokens /\ res[t].status = "active" /\ res[t].expires_at < now)
          => <>(t \in Tokens /\ res[t].status \in {"expired", "confirmed"}))
  /\ \A t \in 1..(NumUnits + ReaperCallers) :
       [](   (/\ t \in Tokens /\ res[t].status = "active" /\ res[t].expires_at < now
              /\ art[res[t].iris_id].status = "reserved")
          => <>(/\ t \in Tokens
                /\ art[res[t].iris_id].status = "available" \/ res[t].status = "confirmed"))
  /\ [][\A t \in Tokens :
          (/\ res[t].status = "active" /\ res'[t].status = "expired"
           /\ art[res[t].iris_id].status = "reserved")
            => /\ art'[res[t].iris_id].status = "available"
               /\ \A s \in Sweeps : sweep'[s] # sweep[s] => Lockable(res[t].iris_id)']_vars

\* A unit whose reservation ran out was released and is reserved again
\* under a later reservation.
C20_Witness ==
  \E t1, t2 \in Tokens :
    /\ t1 < t2
    /\ res[t1].iris_id = res[t2].iris_id
    /\ res[t1].status = "expired"
    /\ res[t1].expires_at < now
    /\ res[t2].status = "active"
    /\ art[res[t2].iris_id].status = "reserved"
    /\ \E i \in 1..Len(ev[res[t1].iris_id]) :
         /\ ev[res[t1].iris_id][i].type = "reservation_expired"
         /\ ev[res[t1].iris_id][i].artwork_released

\* C21: a verify call that reads its unit is rejected with the first that
\* applies of: unit not found (404 iris_not_found), status activated (409
\* already_activated), status other than assigned (409 not_assigned), no
\* PIN (409 pin_not_set), lockout timestamp later than the clock (429
\* too_many_attempts with that timestamp); otherwise it goes on to the PIN
\* comparison.  A rejection leaves every unit and every trail as they were.
C21_RejectionsInOrder ==
  [][\A v \in DOMAIN ver :
       (ver[v].pc = "idle" /\ ver'[v].pc # "idle"
          /\ ver'[v].reply # "missing_required_fields") =>
         LET u == ver'[v].iris
             r == ver'[v]
             rejected(code, reply, retry) ==
               /\ r.pc = "done" /\ r.code = code /\ r.reply = reply /\ r.retry_at = retry
               /\ UNCHANGED <<art, ev>>
         IN IF u \notin Units THEN rejected(404, "iris_not_found", NULL)
            ELSE IF art[u].status = "activated" THEN rejected(409, "already_activated", NULL)
            ELSE IF art[u].status # "assigned" THEN rejected(409, "not_assigned", NULL)
            ELSE IF art[u].pin_code = NULL THEN rejected(409, "pin_not_set", NULL)
            ELSE IF art[u].pin_locked_until # NULL /\ art[u].pin_locked_until > now
                 THEN rejected(429, "too_many_attempts", art[u].pin_locked_until)
            ELSE r.pc \in {"match", "mismatch"}]_vars

\* A call on a locked unit was refused with the unlock time: the counter
\* stands at its value and nothing was appended.
C21_Witness ==
  \E v \in Verifiers :
    /\ ver[v].pc = "done" /\ ver[v].code = 429 /\ ver[v].reply = "too_many_attempts"
    /\ ver[v].iris = GateUnit
    /\ art[GateUnit].status = "assigned"
    /\ ver[v].retry_at = art[GateUnit].pin_locked_until
    /\ ver[v].retry_at > now
    /\ art[GateUnit].pin_attempts = MAX_ATTEMPTS
    /\ ev[GateUnit] = <<>>

\* C22: a proof request is answered with the unit's tier, nonce, proof and
\* root exactly when the unit exists, is activated, has its rarity stored
\* and the request carries a token equal to the unit's proof token; the
\* payload is then the stored one.  Every other request gets none of these
\* fields and is answered 404 not_found, or 400 invalid_iris_id when its
\* id holds no letter, digit or hyphen.
C22_ProofOnlyToOwner ==
  [][got' # got /\ got'.route = "proof" =>
       LET u == sanitizeIrisId(got'.id)
           stored == { k \in 1..Len(rar.written) : rar.written[k].irisId = u }
           allowed == /\ u \in Units
                      /\ art[u].status = "activated"
                      /\ stored # {}
                      /\ got'.token # 0
                      /\ art[u].proof_token = got'.token
       IN /\ got'.code = 200 <=> allowed
          /\ allowed =>
               \E k \in stored :
                 /\ got'.iris_id = u
                 /\ got'.rarity_code = rar.written[k].rarity_code
                 /\ got'.nonce = rar.written[k].nonce
                 /\ got'.proof = rar.written[k].proof
                 /\ got'.root = rar.written[k].root
          /\ ~allowed =>
               /\ got'.rarity_code = NoText /\ got'.nonce = <<>>
               /\ got'.proof = <<>> /\ got'.root = NoHash
               /\ IF u = NULL THEN got'.code = 400 /\ got'.error = "invalid_iris_id"
                  ELSE got'.code = 404 /\ got'.error = "not_found"]_vars

\* C22 as stated: every request that is not answered with the fields is
\* answered not-found.
C22_OthersNotFound ==
  [][got' # got /\ got'.route = "proof" /\ got'.code # 200 =>
       got'.code = 404 /\ got'.error = "not_found"]_vars

\* The owner's link was answered with the stored proof, which verifies.
C22_Witness ==
  /\ got.route = "proof" /\ got.code = 200 /\ got.valid
  /\ got.iris_id = GateUnit
  /\ got.token = art[GateUnit].proof_token
  /\ art[GateUnit].status = "activated"
  /\ Len(got.proof) = 1

\* C23: a unit whose owner_email is set has status activated.
C23_OwnerOnlyWhenActivated ==
  \A u \in Units : art[u].owner_email # NoText => art[u].status = "activated"

\* C24: verifyShopifyHmac(body, secret, h) is true exactly when h is the
\* MAC of the body under the secret, and has a value, false, for every
\* other h, shorter and longer ones included; the handler rejects a
\* delivery that carries a header and an id as invalid_hmac exactly when
\* its header is not that MAC.
C24_HmacIff ==
  /\ [](\A body \in Bodies(PayloadTokens) \cup {NoBody} :
          \A h \in HmacHeaders(body) \cup {<<"sha256", Secret, body, "=">>} :
            /\ verifyShopifyHmac(body, Secret, h) \in BOOLEAN
            /\ verifyShopifyHmac(body, Secret, h) <=> h = HmacDigest(body, Secret))
  /\ [][\A w \in Deliveries :
          (/\ hook[w].pc = "idle" /\ hook'[w].pc # "idle"
           /\ hook'[w].reply \notin {"missing_hmac", "missing_webhook_id"})
            => (hook'[w].reply = "invalid_hmac" <=> ~hook'[w].signed)]_vars

\* One delivery was rejected for its header and another, with the MAC of
\* its body, was let through to the token loop.
C24_Witness ==
  \E w, x \in Deliveries :
    /\ hook[w].reply = "invalid_hmac" /\ hook[w].code = 401 /\ ~hook[w].signed
    /\ hook[x].signed /\ hook[x].pc = "loop"
    /\ verifyShopifyHmac(hook[x].body, Secret, HmacDigest(hook[x].body, Secret))
    /\ ~verifyShopifyHmac(hook[x].body, Secret, <<"nope">>)

\* C25: a verify call that reads a shopify_failed unit with a stored PIN
\* and no lockout in force is put to the PIN comparison: it goes on to the
\* activation or to the count of a wrong PIN, and is not rejected.
C25_FailedUnitStillVerifies ==
  [][\A v \in DOMAIN ver :
       LET u == ver'[v].iris
       IN (/\ ver[v].pc = "idle" /\ ver'[v].pc # "idle"
           /\ u \in Units
           /\ art[u].status = "shopify_failed"
           /\ art[u].pin_code # NULL
           /\ ~(art[u].pin_locked_until # NULL /\ art[u].pin_locked_until > now))
            => ver'[v].pc \in {"match", "mismatch"}]_vars

\* C26: buildRarityAssignments gives tiers to the shuffled identifier list
\* in table order (the first count_1 positions the first tier, the next
\* count_2 the second, and so on), so every identifier gets exactly one tier
\* and tier k is given to exactly count_k identifiers.
C26_TiersInTableOrder ==
  rar.assignments # <<>> =>
    LET table == rar.counts
        rarityList == RarityList(table, 1)
        n == Len(rarityList)
        at == rar.assignments
    IN /\ \A i \in 1..Len(at) : i \in DOMAIN rarityList /\ at[i].rarity = rarityList[i]
       /\ \A id \in 1..n :
            /\ Cardinality({ i \in 1..Len(at) : at[i].irisId = id }) = 1
            /\ \E i \in 1..Len(at), k \in 1..Len(table) :
                 at[i].irisId = id /\ at[i].rarity = table[k].code
       /\ \A k \in 1..Len(table) :
            Cardinality({ id \in 1..n : \E i \in 1..Len(at) :
                            at[i].irisId = id /\ at[i].rarity = table[k].code })
              = table[k].count

C28_ConfirmedAtMostOnce ==
  \A t \in Tokens :
    LET trail == ev[res[t].iris_id]
        held == { k \in Tokens : res[k].iris_id = res[t].iris_id }
    IN /\ Cardinality({ i \in DOMAIN trail :
                          /\ trail[i].type = "assigned"
                          /\ trail[i].reservation_token = t }) <= 1
       /\ Cardinality({ i \in DOMAIN trail : trail[i].type = "pin_generated" })
            <= Cardinality(held)

\* C29: a reservation's status only moves from active to confirmed or from
\* active to expired; confirmed and expired are final, so a reservation that
\* a webhook has confirmed is never afterwards marked expired by a sweep.
C29_ActiveThenFinal ==
  [][\A t \in Tokens :
       res'[t].status # res[t].status
         => /\ res[t].status = "active"
            /\ res'[t].status \in {"confirmed", "expired"}]_vars

\* C30: each unit is sold to at most one order: once a confirmation has set
\* a unit's assigned order reference and buyer email, no later confirmation
\* of any reservation replaces them with those of a different order.
C30_OneOrderPerUnit ==
  [][\A u \in Units :
       art[u].assigned_order_id # NoText
         => /\ art'[u].assigned_order_id = art[u].assigned_order_id
            /\ art'[u].assigned_customer_email = art[u].assigned_customer_email]_vars

\* C31: a unit is activated at most once: of the verify calls on a unit,
\* overlapping or not, at most one is answered 200 ok and at most one
\* activated event is appended, and the owner email that call stored is
\* never changed afterwards.
C31_ActivatedOnce ==
  /\ [](\A u \in Units :
         /\ Cardinality({ v \in DOMAIN ver :
                            ver[v].pc = "done" /\ ver[v].code = 200 /\ ver[v].iris = u }) <= 1
         /\ (\A a \in Activators : act[a].pc = "idle")
              => Cardinality({ i \in DOMAIN ev[u] : ev[u][i].type = "activated" }) <= 1)
  /\ [][\A u \in Units :
          art[u].owner_email # NoText => art'[u].owner_email = art[u].owner_email]_vars

\* C32: a delivery is answered "duplicate" only if an earlier delivery with
\* its id was applied; the retry of a delivery that failed with an internal
\* error after its receipt was recorded is processed, not answered
\* "duplicate".
C32_RetryAfterErrorProcessed ==
  [][\A w \in DOMAIN hook :
       (hook'[w].reply = "duplicate" /\ hook[w].reply # "duplicate")
         => \E x \in DOMAIN hook \ {w} :
              /\ hook[x].id = hook'[w].id
              /\ hook[x].pc # "idle"
              /\ hook[x].reply # "duplicate"
              /\ hook[x].code # 500]_vars

\* C33: when a sweep processes a reservation, its unit is set to available
\* only if the unit's status is reserved at that moment; a unit that is
\* assigned, shopify_failed or activated keeps its status and all its fields;
\* the reservation_expired event's artwork_released flag is true exactly
\* when the unit was reverted.
C33_ReleaseOnlyReserved ==
  [][\A s \in Sweeps :
       (sweep[s].pc = "run" /\ sweep'[s].i = sweep[s].i + 1) =>
         LET t == sweep[s].expired[sweep[s].i]
             u == res[t].iris_id
             e == ev'[u][Len(ev'[u])]
         IN /\ art'[u] = IF art[u].status = "reserved"
                          THEN [art[u] EXCEPT !.status = "available"]
                          ELSE art[u]
            /\ \A o \in Units \ {u} : art'[o] = art[o]
            /\ Len(ev'[u]) = Len(ev[u]) + 1
            /\ e.type = "reservation_expired" /\ e.reservation_token = t
            /\ e.artwork_released <=> art[u].status = "reserved"]_vars

\* A sweep has processed the reservation of a unit that was assigned by
\* then and one that was still reserved: the first event says not released
\* and the unit is as the confirmation left it, the second says released.
C33_Witness ==
  \E u, o \in Units :
    /\ art[u].status \in {"assigned", "shopify_failed"} /\ art[u].pin_code # NULL
    /\ \E i \in DOMAIN ev[u] :
         ev[u][i].type = "reservation_expired" /\ ~ev[u][i].artwork_released
    /\ \E i \in DOMAIN ev[o] :
         ev[o][i].type = "reservation_expired" /\ ev[o][i].artwork_released

\* C34: verify decides on the unit state it reads in the step in which it
\* writes: for overlapping wrong-PIN calls on an assigned, unlocked unit the
\* attempt counter grows by exactly the number of calls answered
\* invalid_pin (no lost update), so at most MAX_ATTEMPTS wrong guesses are
\* answered invalid_pin before a lockout is set.
C34_NoLostAttempt ==
  \A u \in Units :
    LET invalid == { v \in DOMAIN ver :
                      ver[v].pc = "done" /\ ver[v].reply = "invalid_pin" /\ ver[v].iris = u }
    IN art[u].status = "assigned" =>
         /\ art[u].pin_attempts = Cardinality(invalid)
         /\ art[u].pin_locked_until = NULL => Cardinality(invalid) < MAX_ATTEMPTS

\* C35: a wrong-PIN verify call on an assigned, unlocked unit sets, in one
\* step, the attempt counter to its previous value plus 1 and the lockout
\* timestamp to the call's time plus LOCK_MINUTES if and only if the new
\* counter is at least MAX_ATTEMPTS (the counter is not reset when a lockout
\* expires), appends one activation_failed event and is answered 401
\* invalid_pin in both cases.
C35_WrongPinStep ==
  [][\A v \in DOMAIN ver :
       LET u == ver[v].iris
       IN (/\ ver[v].pc = "mismatch" /\ ver'[v].pc = "done"
           /\ art[u].status = "assigned" /\ ~LockedOut(art[u], now))
            => /\ art'[u].pin_attempts = art[u].pin_attempts + 1
               /\ art'[u].pin_locked_until =
                    IF art'[u].pin_attempts >= MAX_ATTEMPTS THEN ver[v].lockUntil ELSE NULL
               /\ art'[u].pin_attempts >= MAX_ATTEMPTS => ver[v].lockUntil # NULL
               /\ art'[u] = [art[u] EXCEPT !.pin_attempts = art'[u].pin_attempts,
                                            !.pin_locked_until = art'[u].pin_locked_until]
               /\ Len(ev'[u]) = Len(ev[u]) + 1
               /\ ev'[u][Len(ev'[u])].type = "activation_failed"
               /\ ver'[v].code = 401 /\ ver'[v].reply = "invalid_pin"]_vars

\* C36: sold units never re-enter the pool: once a unit has reached
\* assigned, no step of reserve-random, a confirmation, verify, an ownership
\* failure or a sweep sets it back to available or reserved.
C36_SoldStaysSold ==
  [][\A u \in Units :
       art[u].status \in {"assigned", "shopify_failed", "activated"}
         => art'[u].status \in {"assigned", "shopify_failed", "activated"}]_vars

\* A sold unit whose reservation a sweep processed after the sale, with a
\* reserve-random call made after the sale that did not get the unit.
C36_Witness ==
  \E u \in Units :
    /\ art[u].status \in {"assigned", "shopify_failed", "activated"}
    /\ \E i, j \in DOMAIN ev[u] :
         /\ i < j
         /\ ev[u][i].type = "assigned"
         /\ ev[u][j].type = "reservation_expired"
    /\ \E c \in DOMAIN alloc : alloc[c].pc = "done" /\ alloc[c].iris # u

\* C37: every step that moves a unit to activated clears the attempt
\* counter and the lockout, records the activation time and the owner
\* email, leaves the buyer email, the assigned order reference and the PIN
\* unchanged, and allocates a proof token only if the unit has none, keeping
\* an existing one.
C37_ActivationStep ==
  [][\A u \in Units :
       (art[u].status # "activated" /\ art'[u].status = "activated")
         => /\ art'[u].pin_attempts = 0
            /\ art'[u].pin_locked_until = NULL
            /\ art'[u].activated_at = now
            /\ art'[u].owner_email # NoText
            /\ art'[u].assigned_customer_email = art[u].assigned_customer_email
            /\ art'[u].assigned_order_id = art[u].assigned_order_id
            /\ art'[u].pin_code = art[u].pin_code
            /\ art'[u].pin_last4 = art[u].pin_last4
            /\ art'[u].proof_token # NULL
            /\ art[u].proof_token # NULL => art'[u].proof_token = art[u].proof_token]_vars

\* C38: a sweep handles at most SweepBatch expired-but-active
\* reservations (findMany takes the first `take` of them); when the pass for
\* one of them fails, that reservation and its unit are left unchanged with
\* no event appended, and the sweep still makes a pass for every remaining
\* reservation of the batch.
C38_BatchAndFailure ==
  /\ [](\A s \in Sweeps :
         /\ Len(sweep[s].expired) <= SweepBatch
         /\ sweep[s].pc = "done" /\ sweep[s].expired # <<>>
              => sweep[s].i = Len(sweep[s].expired) + 1)
  /\ [](\A take \in 0..Len(res) :
         LET batch == FindExpiredOf(now, take)
             all == ExpiredFrom(1, now)
         IN /\ Len(batch) = Min(take, Len(all))
            /\ \A k \in 1..Len(batch) :
                 /\ batch[k] = all[k]
                 /\ res[batch[k]].status = "active"
                 /\ res[batch[k]].expires_at < now)
  /\ [][\A s \in Sweeps :
          sweep'[s].failed # sweep[s].failed
            => /\ UNCHANGED <<art, res, ev>>
               /\ sweep'[s].i = sweep[s].i + 1
               /\ sweep'[s].expired = sweep[s].expired
               /\ sweep'[s].pc = IF sweep[s].i < Len(sweep[s].expired)
                                  THEN "run" ELSE "done"]_vars

\* A sweep over a batch of two has ended: the pass for the first
\* reservation failed and left it active with its unit reserved, the pass
\* for the second released its unit; a further findMany returns the
\* reservation whose pass failed.
C38_Witness ==
  \E s \in Sweeps :
    /\ sweep[s].pc = "done" /\ Len(sweep[s].expired) = 2
    /\ sweep[s].failed = {1}
    /\ LET t1 == sweep[s].expired[1]
           t2 == sweep[s].expired[2]
       IN /\ res[t1].status = "active" /\ art[res[t1].iris_id].status = "reserved"
          /\ Len(ev[res[t1].iris_id]) = 1
          /\ res[t2].status = "expired" /\ art[res[t2].iris_id].status = "available"
          /\ Len(ExpiredFrom(1, now)) = 1

\* C39: shuffleWithSeed returns a permutation of its input for every seed:
\* at each loop index i the swap index j taken from the hash prefix v as
\* floor((v / 0xffffffff) * (i + 1)) satisfies 0 <= j <= i for every v in
\* 0..0xffffffff, so the output has the length and the elements of the
\* input.
C39_ShuffleIsPermutation ==
  rar.assignments # <<>> =>
    LET n == Len(RarityList(rar.counts, 1))
        out == [k \in 1..Len(rar.assignments) |-> rar.assignments[k].irisId]
    IN /\ \A i \in DOMAIN rar.chain :
            SwapIndex(rar.chain[i], i) >= 0 /\ SwapIndex(rar.chain[i], i) <= i
       /\ Len(out) = n
       /\ \A id \in 1..n : Cardinality({ k \in 1..Len(out) : out[k] = id }) = 1

\* C40: once a unit's proof token is set it never changes, and no two units
\* hold the same token: under any interleaving of verify and my-iris calls
\* every token handed out in a passport link remains the unit's stored
\* token.
C40_TokenStable ==
  /\ [](\A u, o \in Units :
         (u # o /\ art[u].proof_token # NULL) => art[u].proof_token # art[o].proof_token)
  /\ []((got.route = "my-iris" /\ got.pc = "done")
          => \A l \in got.links : art[l[1]].proof_token = l[2])
  /\ [][\A u \in Units :
          art[u].proof_token # NULL => art'[u].proof_token = art[u].proof_token]_vars

====
